---- MODULE Spec2Model ----
(***************************************************************************)
(* Model of the two cascading classifiers of the ingestion pipeline:       *)
(*   - detect_content_type  (backend/core/llm/content_detection.py)        *)
(*   - detect_page_type     (backend/core/llm/page_type_detection.py)      *)
(* together with the registry CONTENT_TYPES                                *)
(* (backend/core/llm/content_types.py).                                    *)
(*                                                                         *)
(* Text is modelled as a sequence of characters (one-character strings; a  *)
(* non-ASCII character is written by its name, e.g. "aacute"), so that     *)
(* lower-casing, stripping and the substring tests of the code are         *)
(* computed, not assumed.  A confidence is an exact fraction [n, d].       *)
(***************************************************************************)
EXTENDS Integers, Sequences, FiniteSets, TLC

\* ------------------------------------------------------------------------
\* Characters and strings
\* ------------------------------------------------------------------------

\* Python's None. The empty sequence is the empty string.
None == <<"<None>">>

\* None where a parsed document is expected (html=None)
NoHtml == <<[tag |-> "<None>", cls |-> <<>>, text |-> <<>>]>>

\* Python truthiness of an Optional[str]: None and "" are falsy.
Truthy(s) == s # None /\ s # <<>>

UpperCase == <<"A","B","C","D","E","F","G","H","I","J","K","L","M",
               "N","O","P","Q","R","S","T","U","V","W","X","Y","Z">>

LowerCase == <<"a","b","c","d","e","f","g","h","i","j","k","l","m",
               "n","o","p","q","r","s","t","u","v","w","x","y","z">>

Digits == {"0","1","2","3","4","5","6","7","8","9"}

Whitespace == {" ", "\n", "\t"}

LowerChar(c) ==
  IF \E i \in 1..26 : UpperCase[i] = c
  THEN LowerCase[CHOOSE i \in 1..26 : UpperCase[i] = c]
  ELSE c

\* str.lower()
Lower(s) == [i \in 1..Len(s) |-> LowerChar(s[i])]

\* s[i:] starts with pat
MatchAt(s, i, pat) ==
  /\ i + Len(pat) - 1 <= Len(s)
  /\ \A j \in 1..Len(pat) : s[i + j - 1] = pat[j]

\* pat in s
Contains(s, pat) == \E i \in 1..(Len(s) - Len(pat) + 1) : MatchAt(s, i, pat)

\* s[i:] (1-based, i may be Len(s)+1)
Drop(s, i) == SubSeq(s, i, Len(s))

RECURSIVE RemoveAll(_, _)
\* s.replace(pat, '')
RemoveAll(s, pat) ==
  IF Len(s) < Len(pat) \/ s = <<>> THEN s
  ELSE IF MatchAt(s, 1, pat) THEN RemoveAll(Drop(s, Len(pat) + 1), pat)
       ELSE <<s[1]>> \o RemoveAll(Tail(s), pat)

RECURSIVE LStrip(_)
LStrip(s) == IF s # <<>> /\ s[1] \in Whitespace THEN LStrip(Tail(s)) ELSE s

RECURSIVE RStrip(_)
RStrip(s) ==
  IF s # <<>> /\ s[Len(s)] \in Whitespace THEN RStrip(SubSeq(s, 1, Len(s) - 1)) ELSE s

\* str.strip()
Strip(s) == RStrip(LStrip(s))

\* index of the first position >= i whose character is in stops, else Len(s)+1
RECURSIVE FindFirst(_, _, _)
FindFirst(s, i, stops) ==
  IF i > Len(s) THEN Len(s) + 1
  ELSE IF s[i] \in stops THEN i
  ELSE FindFirst(s, i + 1, stops)

\* ------------------------------------------------------------------------
\* Confidences: exact fractions in lowest terms
\* ------------------------------------------------------------------------

RECURSIVE GCD(_, _)
GCD(a, b) == IF b = 0 THEN a ELSE GCD(b, a % b)

R(n, d) == LET g == GCD(n, d) IN [n |-> n \div g, d |-> d \div g]

RLt(a, b) == a.n * b.d < b.n * a.d
RLe(a, b) == a.n * b.d <= b.n * a.d
RAdd(a, b) == R(a.n * b.d + b.n * a.d, a.d * b.d)
RMul(a, b) == R(a.n * b.n, a.d * b.d)
RMin(a, b) == IF RLe(a, b) THEN a ELSE b

\* ------------------------------------------------------------------------
\* The registry: content_types.CONTENT_TYPES, in its declaration order
\* (label, icon, prompt and description are not read by the detectors)
\* ------------------------------------------------------------------------

CONTENT_TYPES ==
  <<
   [ key |-> <<"r","e","a","l","_","e","s","t","a","t","e">>,
     domains |-> <<
        <<"b","r","e","v","i","t","a","s",".","c","o","m">>,
        <<"c","o","l","d","w","e","l","l","b","a","n","k","e","r">>,
        <<"c","o","l","d","w","e","l","l","b","a","n","k","e","r","c","o","s","t","a","r","i","c","a",".","c","o","m">>,
        <<"e","n","c","u","e","n","t","r","a","2","4",".","c","o","m">>,
        <<"c","e","n","t","u","r","y","2","1">>,
        <<"r","e","m","a","x">>,
        <<"p","r","o","p","e","r","a","t","i">>,
        <<"m","e","r","c","a","d","o","l","i","b","r","e">>,
        <<"o","l","x">> >>,
     keywords |-> <<
        <<"b","e","d","r","o","o","m">>,
        <<"b","e","d","r","o","o","m","s">>,
        <<"h","a","b","i","t","a","c","i","o","n","e","s">>,
        <<"r","e","c","aacute","m","a","r","a","s">>,
        <<"b","a","t","h","r","o","o","m">>,
        <<"b","a","t","h","r","o","o","m","s">>,
        <<"b","a","ntilde","o","s">>,
        <<"s","q","f","t">>,
        <<"s","q","u","a","r","e"," ","f","e","e","t">>,
        <<"m","2">>,
        <<"m","sup2">>,
        <<"m","e","t","r","o","s"," ","c","u","a","d","r","a","d","o","s">>,
        <<"p","r","o","p","e","r","t","y">>,
        <<"p","r","o","p","i","e","d","a","d">>,
        <<"c","a","s","a">>,
        <<"h","o","u","s","e">>,
        <<"a","p","a","r","t","m","e","n","t">>,
        <<"a","p","a","r","t","a","m","e","n","t","o">>,
        <<"f","o","r"," ","s","a","l","e">>,
        <<"v","e","n","t","a">>,
        <<"f","o","r"," ","r","e","n","t">>,
        <<"a","l","q","u","i","l","e","r">>,
        <<"l","o","t"," ","s","i","z","e">>,
        <<"t","e","r","r","e","n","o">>,
        <<"l","a","n","d">> >> ],
   [ key |-> <<"t","o","u","r">>,
     domains |-> <<
        <<"v","i","a","t","o","r",".","c","o","m">>,
        <<"g","e","t","y","o","u","r","g","u","i","d","e",".","c","o","m">>,
        <<"t","r","i","p","a","d","v","i","s","o","r">>,
        <<"a","i","r","b","n","b","e","x","p","e","r","i","e","n","c","e","s">>,
        <<"k","l","o","o","k",".","c","o","m">>,
        <<"c","o","s","t","a","r","i","c","a",".","o","r","g">> >>,
     keywords |-> <<
        <<"t","o","u","r">>,
        <<"t","o","u","r","s">>,
        <<"e","x","c","u","r","s","i","o","n">>,
        <<"e","x","c","u","r","s","i","o","n","e","s">>,
        <<"e","x","c","u","r","s","i","o","n","s">>,
        <<"a","c","t","i","v","i","t","y">>,
        <<"a","c","t","i","v","i","t","i","e","s">>,
        <<"a","c","t","i","v","i","d","a","d","e","s">>,
        <<"a","d","v","e","n","t","u","r","e">>,
        <<"a","d","v","e","n","t","u","r","e","s">>,
        <<"a","v","e","n","t","u","r","a">>,
        <<"e","x","p","e","r","i","e","n","c","e">>,
        <<"e","x","p","e","r","i","e","n","c","e","s">>,
        <<"e","x","p","e","r","i","e","n","c","i","a","s">>,
        <<"d","u","r","a","t","i","o","n">>,
        <<"d","u","r","a","c","i","oacute","n">>,
        <<"g","u","i","d","e">>,
        <<"g","u","iacute","a">>,
        <<"g","u","i","d","e","d">>,
        <<"i","n","c","l","u","d","e","d">>,
        <<"i","n","c","l","u","y","e">>,
        <<"i","n","c","l","u","d","e","s">>,
        <<"p","i","c","k","u","p">>,
        <<"r","e","c","o","g","i","d","a">>,
        <<"p","a","r","t","i","c","i","p","a","n","t","s">>,
        <<"p","a","r","t","i","c","i","p","a","n","t","e","s">>,
        <<"d","i","f","f","i","c","u","l","t","y">>,
        <<"d","i","f","i","c","u","l","t","a","d">>,
        <<"b","o","o","k","i","n","g">>,
        <<"r","e","s","e","r","v","a">>,
        <<"b","o","o","k">>,
        <<"i","t","i","n","e","r","a","r","y">>,
        <<"i","t","i","n","e","r","a","r","i","o">>,
        <<"w","i","l","d","l","i","f","e">>,
        <<"n","a","t","u","r","e">>,
        <<"n","a","t","u","r","a","l","e","z","a">>,
        <<"z","i","p"," ","l","i","n","e">>,
        <<"c","a","n","o","p","y">>,
        <<"r","a","f","t","i","n","g">>,
        <<"h","i","k","i","n","g">> >> ],
   [ key |-> <<"r","e","s","t","a","u","r","a","n","t">>,
     domains |-> <<
        <<"y","e","l","p",".","c","o","m">>,
        <<"z","o","m","a","t","o",".","c","o","m">>,
        <<"o","p","e","n","t","a","b","l","e",".","c","o","m">>,
        <<"t","r","i","p","a","d","v","i","s","o","r">>,
        <<"h","a","p","p","y","c","o","w",".","n","e","t">> >>,
     keywords |-> <<
        <<"r","e","s","t","a","u","r","a","n","t">>,
        <<"r","e","s","t","a","u","r","a","n","t","e">>,
        <<"m","e","n","u">>,
        <<"m","e","n","uacute">>,
        <<"c","u","i","s","i","n","e">>,
        <<"c","o","c","i","n","a">>,
        <<"d","i","s","h">>,
        <<"d","i","s","h","e","s">>,
        <<"p","l","a","t","i","l","l","o","s">>,
        <<"p","l","a","t","o","s">>,
        <<"r","e","s","e","r","v","a","t","i","o","n">>,
        <<"r","e","s","e","r","v","a">>,
        <<"r","e","s","e","r","v","a","t","i","o","n","s">>,
        <<"d","i","n","i","n","g">>,
        <<"c","o","m","i","d","a">>,
        <<"c","h","e","f">>,
        <<"h","o","u","r","s">>,
        <<"h","o","r","a","r","i","o">>,
        <<"p","r","i","c","e"," ","r","a","n","g","e">>,
        <<"r","a","n","g","o"," ","d","e"," ","p","r","e","c","i","o">> >> ],
   [ key |-> <<"l","o","c","a","l","_","t","i","p","s">>,
     domains |-> <<
        <<"w","i","k","i","v","o","y","a","g","e">>,
        <<"l","o","n","e","l","y","p","l","a","n","e","t">>,
        <<"n","o","m","a","d","i","c","m","a","t","t">>,
        <<"r","e","d","d","i","t",".","c","o","m","/","r","/","t","r","a","v","e","l">> >>,
     keywords |-> <<
        <<"t","i","p">>,
        <<"t","i","p","s">>,
        <<"c","o","n","s","e","j","o","s">>,
        <<"a","d","v","i","c","e">>,
        <<"r","e","c","o","m","e","n","d","a","c","i","oacute","n">>,
        <<"l","o","c","a","l">>,
        <<"l","o","c","a","l","s">>,
        <<"a","v","o","i","d">>,
        <<"e","v","i","t","a","r">>,
        <<"s","a","f","e","t","y">>,
        <<"s","e","g","u","r","i","d","a","d">>,
        <<"s","c","a","m">>,
        <<"e","s","t","a","f","a">>,
        <<"b","u","d","g","e","t">>,
        <<"p","r","e","s","u","p","u","e","s","t","o">>,
        <<"m","o","n","e","y">>,
        <<"d","i","n","e","r","o">>,
        <<"c","u","s","t","o","m","s">>,
        <<"c","o","s","t","u","m","b","r","e","s">> >> ],
   [ key |-> <<"t","r","a","n","s","p","o","r","t","a","t","i","o","n">>,
     domains |-> <<
        <<"r","o","m","e","2","r","i","o">>,
        <<"u","b","e","r",".","c","o","m">>,
        <<"l","y","f","t",".","c","o","m">>,
        <<"b","u","s",".","c","o","m">> >>,
     keywords |-> <<
        <<"t","r","a","n","s","p","o","r","t">>,
        <<"t","r","a","n","s","p","o","r","t","e">>,
        <<"t","r","a","n","s","p","o","r","t","a","t","i","o","n">>,
        <<"b","u","s">>,
        <<"t","a","x","i">>,
        <<"s","h","u","t","t","l","e">>,
        <<"r","o","u","t","e">>,
        <<"r","u","t","a">>,
        <<"s","c","h","e","d","u","l","e">>,
        <<"h","o","r","a","r","i","o">>,
        <<"f","a","r","e">>,
        <<"t","a","r","i","f","a">>,
        <<"c","o","s","t">>,
        <<"c","o","s","t","o">>,
        <<"f","r","e","q","u","e","n","c","y">>,
        <<"f","r","e","c","u","e","n","c","i","a">>,
        <<"p","i","c","k","u","p">>,
        <<"r","e","c","o","g","i","d","a">>,
        <<"d","r","o","p","o","f","f">>,
        <<"d","e","s","t","i","n","o">>,
        <<"r","e","n","t","a","l">>,
        <<"a","l","q","u","i","l","e","r">> >> ]
  >>

\* ------------------------------------------------------------------------
\* Inputs of the content-type cascade
\* ------------------------------------------------------------------------

K_real_estate == <<"r","e","a","l","_","e","s","t","a","t","e">>
K_tour == <<"t","o","u","r">>
K_restaurant == <<"r","e","s","t","a","u","r","a","n","t">>
K_local_tips == <<"l","o","c","a","l","_","t","i","p","s">>
K_transportation == <<"t","r","a","n","s","p","o","r","t","a","t","i","o","n">>

U_yelp == <<"h","t","t","p","s",":","/","/","w","w","w",".","y","e","l","p",".","c","o","m","/","b","i","z","/","x">>
\* TEST_URLS[restaurant][1] of test_content_detection.py, shortened
U_tripadvisor == <<"h","t","t","p","s",":","/","/","w","w","w",".","t","r","i","p","a","d","v","i","s","o","r",".","c","o","m","/","R","e","s","t","a","u","r","a","n","t","_","R","e","v","i","e","w">>
U_olx_yelp == <<"h","t","t","p","s",":","/","/","O","L","X",".","y","e","l","p",".","c","o","m","/">>
U_unknown == <<"h","t","t","p","s",":","/","/","w","w","w",".","u","n","k","n","o","w","n","-","s","i","t","e",".","c","o","m","/","p","r","o","p","e","r","t","y">>
\* urlparse raises ValueError on it
U_bad == <<"h","t","t","p",":","/","/","[","b","a","d">>
U_uber == <<"h","t","t","p","s",":","/","/","w","w","w",".","u","b","e","r",".","c","o","m","/","c","r","/","e","n","/">>

\* not a key: the registry lookup is case-sensitive
O_Tour == <<"T","o","u","r">>
O_hotel == <<"h","o","t","e","l">>

\* every keyword of local_tips occurs
D_tips_all ==
  << [tag |-> "title", cls |-> <<>>,
      text |-> <<"T","r","a","v","e","l">>],
     [tag |-> "p", cls |-> <<>>,
      text |-> <<"t","i","p","s"," ","c","o","n","s","e","j","o","s"," ","a","d","v","i","c","e"," ","r","e","c","o","m","e","n","d","a","c","i","oacute","n"," ","l","o","c","a","l","s"," ","a","v","o","i","d"," ","e","v","i","t","a","r"," ","s","a","f","e","t","y"," ","s","e","g","u","r","i","d","a","d"," ","s","c","a","m"," ","e","s","t","a","f","a"," ","b","u","d","g","e","t"," ","p","r","e","s","u","p","u","e","s","t","o"," ","m","o","n","e","y"," ","d","i","n","e","r","o"," ","c","u","s","t","o","m","s"," ","c","o","s","t","u","m","b","r","e","s">>] >>
\* restaurant keywords at medium confidence
D_restaurant ==
  << [tag |-> "h1", cls |-> <<>>,
      text |-> <<"E","l"," ","P","e","s","c","a","d","o","r">>],
     [tag |-> "p", cls |-> <<>>,
      text |-> <<"R","e","s","t","a","u","r","a","n","t"," ","m","e","n","u",","," ","c","u","i","s","i","n","e",","," ","d","i","s","h","e","s","."," ","R","e","s","e","r","v","a","t","i","o","n","s",","," ","d","i","n","i","n","g",","," ","c","h","e","f",","," ","h","o","u","r","s",".">>] >>
\* restaurant keywords at exactly 14 of 20
D_restaurant_high ==
  << [tag |-> "p", cls |-> <<>>,
      text |-> <<"R","e","s","t","a","u","r","a","n","t","e",":"," ","m","e","n","uacute",","," ","c","u","i","s","i","n","e",","," ","c","o","c","i","n","a",","," ","d","i","s","h","e","s",","," ","r","e","s","e","r","v","a","t","i","o","n","s",","," ","d","i","n","i","n","g",","," ","c","h","e","f",","," ","h","o","u","r","s",","," ","p","r","i","c","e"," ","r","a","n","g","e">>] >>
\* the text of D_restaurant and two more restaurant keywords
D_restaurant_more ==
  << [tag |-> "h1", cls |-> <<>>,
      text |-> <<"E","l"," ","P","e","s","c","a","d","o","r">>],
     [tag |-> "p", cls |-> <<>>,
      text |-> <<"R","e","s","t","a","u","r","a","n","t"," ","m","e","n","u",","," ","c","u","i","s","i","n","e",","," ","d","i","s","h","e","s","."," ","R","e","s","e","r","v","a","t","i","o","n","s",","," ","d","i","n","i","n","g",","," ","c","h","e","f",","," ","h","o","u","r","s",".">>],
     [tag |-> "p", cls |-> <<>>,
      text |-> <<" ","P","l","a","t","o","s",","," ","c","o","m","i","d","a",".">>] >>
\* one keyword only: below min_confidence
D_taxi ==
  << [tag |-> "p", cls |-> <<>>,
      text |-> <<"T","a","x","i">>] >>
\* 12 of the 40 tour keywords and 6 of the 20 restaurant keywords
D_tie ==
  << [tag |-> "p", cls |-> <<>>,
      text |-> <<"T","o","u","r","s"," ","e","x","c","u","r","s","i","o","n","s"," ","a","d","v","e","n","t","u","r","e","s"," ","e","x","p","e","r","i","e","n","c","e","s"," ","g","u","i","d","e","d"," ","b","o","o","k"," ","r","e","s","e","r","v","a","t","i","o","n","s"," ","m","e","n","u"," ","d","i","s","h"," ","c","h","e","f">>] >>
\* keywords inside a script element only
D_script ==
  << [tag |-> "script", cls |-> <<>>,
      text |-> <<"t","i","p","s"," ","c","o","n","s","e","j","o","s"," ","a","d","v","i","c","e"," ","r","e","c","o","m","e","n","d","a","c","i","oacute","n"," ","l","o","c","a","l","s"," ","a","v","o","i","d"," ","e","v","i","t","a","r"," ","s","a","f","e","t","y"," ","s","e","g","u","r","i","d","a","d"," ","s","c","a","m"," ","e","s","t","a","f","a"," ","b","u","d","g","e","t"," ","p","r","e","s","u","p","u","e","s","t","o"," ","m","o","n","e","y"," ","d","i","n","e","r","o"," ","c","u","s","t","o","m","s"," ","c","o","s","t","u","m","b","r","e","s">>],
     [tag |-> "p", cls |-> <<>>,
      text |-> <<"h","e","l","l","o">>] >>

\* LLM replies; _simple_llm_classify strips and lower-cases them
A_tour_raw == <<" ","T","o","u","r","\n">>
A_restaurant == <<"r","e","s","t","a","u","r","a","n","t">>
A_hotel == <<"h","o","t","e","l">>

\* ------------------------------------------------------------------------
\* urllib.parse.urlparse, as far as the detectors use it (netloc and path)
\* ------------------------------------------------------------------------

SchemeChars == {LowerCase[i] : i \in 1..26} \cup {UpperCase[i] : i \in 1..26}
               \cup Digits \cup {"+", "-", "."}

\* The result of urlparse(url): ok = FALSE stands for the ValueError
\* ("Invalid IPv6 URL") raised for a netloc with an unbalanced bracket.
urlparse(u) ==
  LET colon     == FindFirst(u, 1, {":"})
      hasScheme == /\ colon > 1
                   /\ colon <= Len(u)
                   /\ \A i \in 1..(colon - 1) : u[i] \in SchemeChars
      rest      == IF hasScheme THEN Drop(u, colon + 1) ELSE u
      hasNetloc == MatchAt(rest, 1, <<"/", "/">>)
      delim     == FindFirst(rest, 3, {"/", "?", "#"})
      netloc    == IF hasNetloc THEN SubSeq(rest, 3, delim - 1) ELSE <<>>
      afterLoc  == IF hasNetloc THEN Drop(rest, delim) ELSE rest
      pathEnd   == FindFirst(afterLoc, 1, {"?", "#"})
      open      == Contains(netloc, <<"[">>)
      close     == Contains(netloc, <<"]">>)
  IN  [ ok     |-> (open <=> close),
        netloc |-> netloc,
        path   |-> SubSeq(afterLoc, 1, pathEnd - 1) ]

\* ------------------------------------------------------------------------
\* Strategy 2: detect_by_domain
\* ------------------------------------------------------------------------

\* True iff one of the category's domain patterns occurs in the domain.
DomainMatches(domain, config) ==
  \E k \in 1..Len(config.domains) : Contains(domain, Lower(config.domains[k]))

detect_by_domain(u) ==
  IF ~Truthy(u) THEN None
  ELSE LET parsed == urlparse(u)
           domain == RemoveAll(Lower(parsed.netloc), <<"w","w","w",".">>)
           hits   == {i \in 1..Len(CONTENT_TYPES) : DomainMatches(domain, CONTENT_TYPES[i])}
       IN  IF ~parsed.ok THEN None
           ELSE IF hits = {} THEN None
           ELSE CONTENT_TYPES[CHOOSE i \in hits : \A j \in hits : i <= j].key

\* ------------------------------------------------------------------------
\* Strategy 3: detect_by_keywords
\* ------------------------------------------------------------------------

\* A parsed document is the sequence of its elements, each with its tag, its
\* class attribute and the text directly inside it.
RECURSIVE ConcatText(_, _)
ConcatText(doc, skip) ==
  IF doc = <<>> THEN <<>>
  ELSE (IF doc[1].tag \in skip THEN <<>> ELSE doc[1].text) \o ConcatText(Tail(doc), skip)

\* soup.get_text() after script and style elements were decomposed
VisibleText(doc) == ConcatText(doc, {"script", "style"})

KeywordScore(text, config) ==
  LET keyword_matches == Cardinality({k \in 1..Len(config.keywords) :
                                        Contains(text, Lower(config.keywords[k]))})
      total_keywords  == Len(config.keywords)
  IN  [ matches    |-> keyword_matches,
        total      |-> total_keywords,
        confidence |-> IF total_keywords > 0 THEN R(keyword_matches, total_keywords)
                       ELSE R(0, 1) ]

\* the last entry, in registry order, that no other entry exceeds
BestScore_last(scores) ==
  CHOOSE i \in DOMAIN scores :
    /\ \A j \in DOMAIN scores : RLe(scores[j].confidence, scores[i].confidence)
    /\ \A j \in DOMAIN scores : j > i => RLt(scores[j].confidence, scores[i].confidence)

\* min instead of max: the first entry that exceeds no other entry
BestScore_min(scores) ==
  CHOOSE i \in DOMAIN scores :
    /\ \A j \in DOMAIN scores : RLe(scores[i].confidence, scores[j].confidence)
    /\ \A j \in DOMAIN scores : j < i => RLt(scores[i].confidence, scores[j].confidence)

\* max(scores.items(), key=confidence): the first entry, in registry order,
\* that no other entry exceeds.
BestScore(scores) ==
  CHOOSE i \in DOMAIN scores :
    /\ \A j \in DOMAIN scores : RLe(scores[j].confidence, scores[i].confidence)
    /\ \A j \in DOMAIN scores : j < i => RLt(scores[j].confidence, scores[i].confidence)

detect_by_keywords(doc, min_confidence) ==
  IF doc = NoHtml THEN [type |-> None, confidence |-> R(0, 1)]
  ELSE LET text   == Lower(VisibleText(doc))
           scores == [i \in 1..Len(CONTENT_TYPES) |-> KeywordScore(text, CONTENT_TYPES[i])]
           best   == BestScore(scores)
       IN  IF RLe(min_confidence, scores[best].confidence)
           THEN [type |-> CONTENT_TYPES[best].key, confidence |-> scores[best].confidence]
           ELSE [type |-> None, confidence |-> scores[best].confidence]

\* ------------------------------------------------------------------------
\* Level 1: _analyze_url_patterns
\* ------------------------------------------------------------------------

\* a reason or indicator string: its text and the values formatted into it
Msg(text, args) == [text |-> text, args |-> args]

Analysis(page_type, confidence, reason) ==
  [raised |-> FALSE, page_type |-> page_type, confidence |-> confidence, reason |-> reason]

\* length of the run of digits that starts at position i
RECURSIVE DigitRun(_, _)
DigitRun(s, i) == IF i <= Len(s) /\ s[i] \in Digits THEN 1 + DigitRun(s, i + 1) ELSE 0

\* re.search(r'\d{n,}', s)
HasDigitRun(s, n) == \E i \in 1..Len(s) : DigitRun(s, i) >= n

\* re.search(lit + r'\d{n,}', s) for a literal prefix lit
HasIdAfter(s, lit, n) ==
  \E i \in 1..Len(s) : MatchAt(s, i, lit) /\ DigitRun(s, i + Len(lit)) >= n

\* re.search(r'/d\d+-\d+', s)
HasViatorId(s) ==
  \E i \in 1..Len(s) :
    /\ MatchAt(s, i, <<"/","d">>)
    /\ LET run == DigitRun(s, i + 2)
       IN  /\ run >= 1
           /\ MatchAt(s, i + 2 + run, <<"-">>)
           /\ DigitRun(s, i + 3 + run) >= 1

\* re.search(r'/(attraction|restaurant).*review.*-d\d+', s)
HasReviewId(s) ==
  \E i \in 1..Len(s) : \E head \in {<<"/","a","t","t","r","a","c","t","i","o","n">>, <<"/","r","e","s","t","a","u","r","a","n","t">>} :
    /\ MatchAt(s, i, head)
    /\ \E j \in (i + Len(head))..Len(s) :
         /\ MatchAt(s, j, <<"r","e","v","i","e","w">>)
         /\ \E k \in (j + 6)..Len(s) : MatchAt(s, k, <<"-","d">>) /\ DigitRun(s, k + 2) >= 1

SlugChars == {LowerCase[i] : i \in 1..26} \cup Digits \cup {"-"}

\* re.search(r'/property/[a-z0-9-]+$', s)
HasPropertySlug(s) ==
  \E i \in 1..Len(s) :
    /\ MatchAt(s, i, <<"/","p","r","o","p","e","r","t","y","/">>)
    /\ i + 10 <= Len(s)
    /\ \A k \in (i + 10)..Len(s) : s[k] \in SlugChars

\* s.split(sep)
RECURSIVE Split(_, _)
Split(s, sep) ==
  LET cut == FindFirst(s, 1, {sep})
  IN  IF cut > Len(s) THEN <<s>>
      ELSE <<SubSeq(s, 1, cut - 1)>> \o Split(Drop(s, cut + 1), sep)

\* len([p for p in path.split('/') if p])
PathDepth(path) ==
  LET parts == Split(path, "/") IN Cardinality({i \in 1..Len(parts) : parts[i] # <<>>})

\* s.rstrip('/')
RECURSIVE RStripSlash(_)
RStripSlash(s) ==
  IF s # <<>> /\ s[Len(s)] = "/" THEN RStripSlash(SubSeq(s, 1, Len(s) - 1)) ELSE s

EndsWith(s, suffix) == Len(s) >= Len(suffix) /\ MatchAt(s, Len(s) - Len(suffix) + 1, suffix)

\* re.search(r'/(tours|properties|restaurants|activities)/?$', s)
EndsInPlural(s) ==
  \E noun \in {<<"/","t","o","u","r","s">>, <<"/","p","r","o","p","e","r","t","i","e","s">>, <<"/","r","e","s","t","a","u","r","a","n","t","s">>, <<"/","a","c","t","i","v","i","t","i","e","s">>} :
    EndsWith(s, noun) \/ EndsWith(s, noun \o <<"/">>)

\* re.search(r'/(tours|properties|restaurants)/[^/]+/?$', s)
IsCategoryCandidate(s) ==
  \E i \in 1..Len(s) : \E noun \in {<<"/","t","o","u","r","s","/">>, <<"/","p","r","o","p","e","r","t","i","e","s","/">>, <<"/","r","e","s","t","a","u","r","a","n","t","s","/">>} :
    /\ MatchAt(s, i, noun)
    /\ LET rest == Drop(s, i + Len(noun))
           seg  == IF rest # <<>> /\ rest[Len(rest)] = "/"
                   THEN SubSeq(rest, 1, Len(rest) - 1) ELSE rest
       IN  /\ rest # <<>>
           /\ rest[1] # "/"
           /\ ~Contains(seg, <<"/">>)

\* path.rstrip('/').split('/')[-1]
LastSegment(path) == LET parts == Split(RStripSlash(path), "/") IN parts[Len(parts)]

\* re.search(r'/(search|browse|results|category)', s)
HasSearchWord(s) ==
  \E word \in {<<"/","s","e","a","r","c","h">>, <<"/","b","r","o","w","s","e">>, <<"/","r","e","s","u","l","t","s">>, <<"/","c","a","t","e","g","o","r","y">>} : Contains(s, word)

HomePaths == {<<"/">>, <<>>, <<"/","i","n","d","e","x">>, <<"/","i","n","d","e","x",".","h","t","m","l">>}

RealEstateDomainWords == {<<"c","o","l","d","w","e","l","l">>, <<"b","r","e","v","i","t","a","s">>, <<"e","n","c","u","e","n","t","r","a","2","4">>, <<"r","e","m","a","x">>}

\* the analyzer with the depth rule after the rules for listing pages
analyze_url_patterns_depth_last(u, ctype) ==
  IF ~Truthy(u) THEN Analysis("specific", R(3, 10), <<Msg("No URL provided", <<>>)>>)
  ELSE
  LET parsed == urlparse(u)
      path   == Lower(parsed.path)
      domain == Lower(parsed.netloc)
      depth  == PathDepth(path)
  IN
  IF ~parsed.ok THEN [raised |-> TRUE]
  ELSE IF HasViatorId(path)
    THEN Analysis("specific", R(95, 100), <<Msg("Viator-style ID (d742-12345)", <<>>)>>)
  ELSE IF HasIdAfter(path, <<"/","t">>, 4)
    THEN Analysis("specific", R(95, 100), <<Msg("GetYourGuide-style ID (t12345)", <<>>)>>)
  ELSE IF HasIdAfter(path, <<"-">>, 5)
    THEN Analysis("specific", R(90, 100), <<Msg("Contains 5+ digit ID", <<>>)>>)
  ELSE IF HasIdAfter(path, <<"/","l","i","s","t","i","n","g","-">>, 1)
    THEN Analysis("specific", R(95, 100), <<Msg("Listing with ID", <<>>)>>)
  ELSE IF HasReviewId(path)
    THEN Analysis("specific", R(95, 100), <<Msg("TripAdvisor specific review page", <<>>)>>)
  ELSE IF HasPropertySlug(path)
    THEN Analysis("specific", R(85, 100), <<Msg("Property with slug", <<>>)>>)
  ELSE IF EndsInPlural(path)
    THEN Analysis("general", R(90, 100), <<Msg("Ends in plural (listing page)", <<>>)>>)
  ELSE IF IsCategoryCandidate(path) /\ ~HasDigitRun(LastSegment(path), 4)
    THEN Analysis("general", R(85, 100), <<Msg("Category/destination page", <<>>)>>)
  ELSE IF HasSearchWord(path)
    THEN Analysis("general", R(95, 100), <<Msg("Search/browse page", <<>>)>>)
  ELSE IF path \in HomePaths
    THEN Analysis("general", R(90, 100), <<Msg("Homepage", <<>>)>>)
  ELSE IF depth >= 4
    THEN Analysis("specific", R(75, 100), <<Msg("Deep path (%d levels)", <<depth>>)>>)
  ELSE IF \E word \in RealEstateDomainWords : Contains(domain, word)
    THEN Analysis("specific", R(60, 100), <<Msg("Real estate domain, likely property page", <<>>)>>)
  ELSE Analysis("specific", R(50, 100),
                <<Msg("URL pattern inconclusive, defaulting to specific", <<>>)>>)

analyze_url_patterns(u, ctype) ==
  IF ~Truthy(u) THEN Analysis("specific", R(3, 10), <<Msg("No URL provided", <<>>)>>)
  ELSE
  LET parsed == urlparse(u)
      path   == Lower(parsed.path)
      domain == Lower(parsed.netloc)
      depth  == PathDepth(path)
  IN
  IF ~parsed.ok THEN [raised |-> TRUE]
  ELSE IF HasViatorId(path)
    THEN Analysis("specific", R(95, 100), <<Msg("Viator-style ID (d742-12345)", <<>>)>>)
  ELSE IF HasIdAfter(path, <<"/","t">>, 4)
    THEN Analysis("specific", R(95, 100), <<Msg("GetYourGuide-style ID (t12345)", <<>>)>>)
  ELSE IF HasIdAfter(path, <<"-">>, 5)
    THEN Analysis("specific", R(90, 100), <<Msg("Contains 5+ digit ID", <<>>)>>)
  ELSE IF HasIdAfter(path, <<"/","l","i","s","t","i","n","g","-">>, 1)
    THEN Analysis("specific", R(95, 100), <<Msg("Listing with ID", <<>>)>>)
  ELSE IF HasReviewId(path)
    THEN Analysis("specific", R(95, 100), <<Msg("TripAdvisor specific review page", <<>>)>>)
  ELSE IF HasPropertySlug(path)
    THEN Analysis("specific", R(85, 100), <<Msg("Property with slug", <<>>)>>)
  ELSE IF depth >= 4
    THEN Analysis("specific", R(75, 100), <<Msg("Deep path (%d levels)", <<depth>>)>>)
  ELSE IF EndsInPlural(path)
    THEN Analysis("general", R(90, 100), <<Msg("Ends in plural (listing page)", <<>>)>>)
  ELSE IF IsCategoryCandidate(path) /\ ~HasDigitRun(LastSegment(path), 4)
    THEN Analysis("general", R(85, 100), <<Msg("Category/destination page", <<>>)>>)
  ELSE IF HasSearchWord(path)
    THEN Analysis("general", R(95, 100), <<Msg("Search/browse page", <<>>)>>)
  ELSE IF path \in HomePaths
    THEN Analysis("general", R(90, 100), <<Msg("Homepage", <<>>)>>)
  ELSE IF \E word \in RealEstateDomainWords : Contains(domain, word)
    THEN Analysis("specific", R(60, 100), <<Msg("Real estate domain, likely property page", <<>>)>>)
  ELSE Analysis("specific", R(50, 100),
                <<Msg("URL pattern inconclusive, defaulting to specific", <<>>)>>)

\* ------------------------------------------------------------------------
\* Level 2: _analyze_html_structure
\* ------------------------------------------------------------------------

\* soup.get_text()
AllText(doc) == ConcatText(doc, {})

CardClassWords == <<<<"c","a","r","d">>, <<"i","t","e","m">>, <<"l","i","s","t","i","n","g">>, <<"p","r","o","d","u","c","t">>, <<"r","e","s","u","l","t">>>>

\* minimum text length of a meaningful card
MinCardText == 50

\* the count in which a restaurant page has cards of class 'card' only
count_item_cards_by_type(doc, ctype) ==
  LET words    == IF ctype = K_restaurant THEN <<CardClassWords[1]>> ELSE CardClassWords
      count(w) == Cardinality({i \in 1..Len(doc) :
                     /\ doc[i].tag = "div"
                     /\ Truthy(doc[i].cls)
                     /\ Contains(Lower(doc[i].cls), words[w])
                     /\ Len(Strip(doc[i].text)) > MinCardText})
  IN  CHOOSE m \in 0..Len(doc) :
        /\ \E w \in 1..Len(words) : count(w) = m
        /\ \A w \in 1..Len(words) : count(w) <= m

\* _count_item_cards: for each class word, the div elements whose class
\* contains it and whose stripped text is longer than 50 characters; the
\* largest of the five counts.
count_item_cards(doc, ctype) ==
  LET count(w) == Cardinality({i \in 1..Len(doc) :
                     /\ doc[i].tag = "div"
                     /\ Truthy(doc[i].cls)
                     /\ Contains(Lower(doc[i].cls), CardClassWords[w])
                     /\ Len(Strip(doc[i].text)) > MinCardText})
  IN  CHOOSE m \in 0..Len(doc) :
        /\ \E w \in 1..Len(CardClassWords) : count(w) = m
        /\ \A w \in 1..Len(CardClassWords) : count(w) <= m

\* sum(1 for kw in keywords if kw in text)
CountFound(text, keywords) ==
  Cardinality({k \in 1..Len(keywords) : Contains(text, keywords[k])})

booking_keywords ==
  <<<<"b","o","o","k"," ","n","o","w">>,
     <<"r","e","s","e","r","v","e">>,
     <<"c","h","e","c","k"," ","a","v","a","i","l","a","b","i","l","i","t","y">>,
     <<"a","d","d"," ","t","o"," ","c","a","r","t">>,
     <<"b","o","o","k"," ","t","h","i","s">>>>

filter_keywords ==
  <<<<"f","i","l","t","e","r">>,
     <<"s","o","r","t"," ","b","y">>,
     <<"p","r","i","c","e"," ","r","a","n","g","e">>,
     <<"s","h","o","w","i","n","g">>,
     <<"r","e","s","u","l","t","s">>>>

pagination_keywords ==
  <<<<"n","e","x","t"," ","p","a","g","e">>,
     <<"p","r","e","v","i","o","u","s">>,
     <<"p","a","g","e"," ","1">>,
     <<"p","a","g","e"," ","2">>,
     <<"o","f">>>>

specific_tour_keywords ==
  <<<<"w","h","a","t","'","s"," ","i","n","c","l","u","d","e","d">>,
     <<"t","o","u","r"," ","d","e","t","a","i","l","s">>,
     <<"m","e","e","t","i","n","g"," ","p","o","i","n","t">>,
     <<"c","a","n","c","e","l","l","a","t","i","o","n"," ","p","o","l","i","c","y">>,
     <<"d","e","p","a","r","t","u","r","e"," ","t","i","m","e">>,
     <<"p","i","c","k","-","u","p"," ","l","o","c","a","t","i","o","n">>,
     <<"w","h","a","t"," ","t","o"," ","b","r","i","n","g">>,
     <<"t","o","u","r"," ","i","t","i","n","e","r","a","r","y">>>>

general_guide_keywords ==
  <<<<"t","o","p"," ","t","o","u","r","s">>,
     <<"b","e","s","t"," ","t","o","u","r","s">>,
     <<"b","r","o","w","s","e"," ","t","o","u","r","s">>,
     <<"a","l","l"," ","t","o","u","r","s">>,
     <<"t","h","i","n","g","s"," ","t","o"," ","d","o">>,
     <<"a","c","t","i","v","i","t","i","e","s"," ","i","n">>,
     <<"e","x","p","l","o","r","e">>,
     <<"d","i","s","c","o","v","e","r">>,
     <<"g","u","i","d","e"," ","t","o">>,
     <<"v","i","s","i","t">>,
     <<"h","a","v","e","n"," ","f","o","r">>,
     <<"p","e","r","f","e","c","t"," ","f","o","r">>,
     <<"d","o","n","'","t"," ","m","i","s","s">>,
     <<"m","u","s","t"," ","s","e","e">>,
     <<"w","h","a","t"," ","t","o"," ","e","x","p","e","c","t">>>>

\* len(re.findall(lit + r'\s*\d+', text)) or, without gap, lit + r'\d+'
RECURSIVE SkipSpace(_, _)
SkipSpace(s, i) == IF i <= Len(s) /\ s[i] \in Whitespace THEN SkipSpace(s, i + 1) ELSE i

CountAmounts(text, lit, gap) ==
  Cardinality({i \in 1..Len(text) :
     /\ MatchAt(text, i, lit)
     /\ LET j == IF gap THEN SkipSpace(text, i + Len(lit)) ELSE i + Len(lit)
        IN  DigitRun(text, j) >= 1})

\* price_patterns = [r'\$\d+', r'USD\s*\d+', r'€\d+', r'£\d+']
CountPrices(text) ==
  CountAmounts(text, <<"$">>, FALSE) + CountAmounts(text, <<"U","S","D">>, TRUE)
    + CountAmounts(text, <<"euro">>, FALSE) + CountAmounts(text, <<"pound">>, FALSE)

\* indicators[:3]
FirstThree(indicators) == SubSeq(indicators, 1, IF Len(indicators) < 3 THEN Len(indicators) ELSE 3)

\* the score sheet with the tour-detail phrases scaled like the guide phrases
ScoreSheet_scaled_details(doc, ctype) ==
  LET text             == Lower(AllText(doc))
      card_count       == count_item_cards(doc, ctype)
      booking_found    == CountFound(text, booking_keywords)
      filter_found     == CountFound(text, filter_keywords)
      pagination_found == CountFound(text, pagination_keywords)
      specific_tour_found == CountFound(text, specific_tour_keywords)
      general_guide_found == CountFound(text, general_guide_keywords)
      total_prices     == CountPrices(text)
      cards   == IF card_count >= 5
                   THEN [s |-> 0, g |-> 3, ind |-> <<Msg("Found %d item cards", <<card_count>>)>>]
                 ELSE IF card_count >= 2
                   THEN [s |-> 0, g |-> 1, ind |-> <<Msg("Found %d possible items", <<card_count>>)>>]
                 ELSE [s |-> 2, g |-> 0, ind |-> <<Msg("Found %d item (single page)", <<card_count>>)>>]
      booking == IF booking_found >= 2
                   THEN [s |-> 3, g |-> 0, ind |-> <<Msg("Found %d booking elements", <<booking_found>>)>>]
                 ELSE [s |-> 0, g |-> 0, ind |-> <<>>]
      filter  == IF filter_found >= 2
                   THEN [s |-> 0, g |-> 3, ind |-> <<Msg("Found %d filter elements", <<filter_found>>)>>]
                 ELSE [s |-> 0, g |-> 0, ind |-> <<>>]
      paging  == IF pagination_found >= 2
                   THEN [s |-> 0, g |-> 2, ind |-> <<Msg("Found pagination", <<>>)>>]
                 ELSE [s |-> 0, g |-> 0, ind |-> <<>>]
      tourS   == IF ctype = K_tour /\ specific_tour_found >= 3
                   THEN [s |-> 2, g |-> 0,
                         ind |-> <<Msg("Found %d specific tour details", <<specific_tour_found>>)>>]
                 ELSE IF ctype = K_tour /\ specific_tour_found >= 1
                   THEN [s |-> 1, g |-> 0,
                         ind |-> <<Msg("Found %d specific tour details", <<specific_tour_found>>)>>]
                 ELSE [s |-> 0, g |-> 0, ind |-> <<>>]
      tourG   == IF ctype = K_tour /\ general_guide_found >= 3
                   THEN [s |-> 0, g |-> 3,
                         ind |-> <<Msg("Found %d destination guide keywords", <<general_guide_found>>)>>]
                 ELSE IF ctype = K_tour /\ general_guide_found >= 1
                   THEN [s |-> 0, g |-> 1,
                         ind |-> <<Msg("Found %d guide keyword", <<general_guide_found>>)>>]
                 ELSE [s |-> 0, g |-> 0, ind |-> <<>>]
      prices  == IF total_prices >= 10
                   THEN [s |-> 0, g |-> 3, ind |-> <<Msg("Found %d prices (listing)", <<total_prices>>)>>]
                 ELSE IF total_prices <= 3
                   THEN [s |-> 1, g |-> 0,
                         ind |-> <<Msg("Found %d price(s) (single item)", <<total_prices>>)>>]
                 ELSE [s |-> 0, g |-> 0, ind |-> <<>>]
  IN  [ card_count     |-> card_count,
        found          |-> [ booking |-> booking_found, filter |-> filter_found,
                             pagination |-> pagination_found,
                             specific_tour |-> specific_tour_found,
                             general_guide |-> general_guide_found,
                             prices |-> total_prices ],
        specific_score |-> cards.s + booking.s + filter.s + paging.s + tourS.s + tourG.s + prices.s,
        general_score  |-> cards.g + booking.g + filter.g + paging.g + tourS.g + tourG.g + prices.g,
        indicators     |-> cards.ind \o booking.ind \o filter.ind \o paging.ind
                             \o tourS.ind \o tourG.ind \o prices.ind ]

\* the score sheet in which fewer than two cards add to neither score
ScoreSheet_no_single(doc, ctype) ==
  LET text             == Lower(AllText(doc))
      card_count       == count_item_cards(doc, ctype)
      booking_found    == CountFound(text, booking_keywords)
      filter_found     == CountFound(text, filter_keywords)
      pagination_found == CountFound(text, pagination_keywords)
      specific_tour_found == CountFound(text, specific_tour_keywords)
      general_guide_found == CountFound(text, general_guide_keywords)
      total_prices     == CountPrices(text)
      cards   == IF card_count >= 5
                   THEN [s |-> 0, g |-> 3, ind |-> <<Msg("Found %d item cards", <<card_count>>)>>]
                 ELSE IF card_count >= 2
                   THEN [s |-> 0, g |-> 1, ind |-> <<Msg("Found %d possible items", <<card_count>>)>>]
                 ELSE [s |-> 0, g |-> 0, ind |-> <<>>]
      booking == IF booking_found >= 2
                   THEN [s |-> 3, g |-> 0, ind |-> <<Msg("Found %d booking elements", <<booking_found>>)>>]
                 ELSE [s |-> 0, g |-> 0, ind |-> <<>>]
      filter  == IF filter_found >= 2
                   THEN [s |-> 0, g |-> 3, ind |-> <<Msg("Found %d filter elements", <<filter_found>>)>>]
                 ELSE [s |-> 0, g |-> 0, ind |-> <<>>]
      paging  == IF pagination_found >= 2
                   THEN [s |-> 0, g |-> 2, ind |-> <<Msg("Found pagination", <<>>)>>]
                 ELSE [s |-> 0, g |-> 0, ind |-> <<>>]
      tourS   == IF ctype = K_tour /\ specific_tour_found >= 2
                   THEN [s |-> 2, g |-> 0,
                         ind |-> <<Msg("Found %d specific tour details", <<specific_tour_found>>)>>]
                 ELSE [s |-> 0, g |-> 0, ind |-> <<>>]
      tourG   == IF ctype = K_tour /\ general_guide_found >= 3
                   THEN [s |-> 0, g |-> 3,
                         ind |-> <<Msg("Found %d destination guide keywords", <<general_guide_found>>)>>]
                 ELSE IF ctype = K_tour /\ general_guide_found >= 1
                   THEN [s |-> 0, g |-> 1,
                         ind |-> <<Msg("Found %d guide keyword", <<general_guide_found>>)>>]
                 ELSE [s |-> 0, g |-> 0, ind |-> <<>>]
      prices  == IF total_prices >= 10
                   THEN [s |-> 0, g |-> 3, ind |-> <<Msg("Found %d prices (listing)", <<total_prices>>)>>]
                 ELSE IF total_prices <= 3
                   THEN [s |-> 1, g |-> 0,
                         ind |-> <<Msg("Found %d price(s) (single item)", <<total_prices>>)>>]
                 ELSE [s |-> 0, g |-> 0, ind |-> <<>>]
  IN  [ card_count     |-> card_count,
        found          |-> [ booking |-> booking_found, filter |-> filter_found,
                             pagination |-> pagination_found,
                             specific_tour |-> specific_tour_found,
                             general_guide |-> general_guide_found,
                             prices |-> total_prices ],
        specific_score |-> cards.s + booking.s + filter.s + paging.s + tourS.s + tourG.s + prices.s,
        general_score  |-> cards.g + booking.g + filter.g + paging.g + tourS.g + tourG.g + prices.g,
        indicators     |-> cards.ind \o booking.ind \o filter.ind \o paging.ind
                             \o tourS.ind \o tourG.ind \o prices.ind ]

\* The score sheet after every step of _analyze_html_structure.
ScoreSheet(doc, ctype) ==
  LET text             == Lower(AllText(doc))
      card_count       == count_item_cards(doc, ctype)
      booking_found    == CountFound(text, booking_keywords)
      filter_found     == CountFound(text, filter_keywords)
      pagination_found == CountFound(text, pagination_keywords)
      specific_tour_found == CountFound(text, specific_tour_keywords)
      general_guide_found == CountFound(text, general_guide_keywords)
      total_prices     == CountPrices(text)
      cards   == IF card_count >= 5
                   THEN [s |-> 0, g |-> 3, ind |-> <<Msg("Found %d item cards", <<card_count>>)>>]
                 ELSE IF card_count >= 2
                   THEN [s |-> 0, g |-> 1, ind |-> <<Msg("Found %d possible items", <<card_count>>)>>]
                 ELSE [s |-> 2, g |-> 0, ind |-> <<Msg("Found %d item (single page)", <<card_count>>)>>]
      booking == IF booking_found >= 2
                   THEN [s |-> 3, g |-> 0, ind |-> <<Msg("Found %d booking elements", <<booking_found>>)>>]
                 ELSE [s |-> 0, g |-> 0, ind |-> <<>>]
      filter  == IF filter_found >= 2
                   THEN [s |-> 0, g |-> 3, ind |-> <<Msg("Found %d filter elements", <<filter_found>>)>>]
                 ELSE [s |-> 0, g |-> 0, ind |-> <<>>]
      paging  == IF pagination_found >= 2
                   THEN [s |-> 0, g |-> 2, ind |-> <<Msg("Found pagination", <<>>)>>]
                 ELSE [s |-> 0, g |-> 0, ind |-> <<>>]
      tourS   == IF ctype = K_tour /\ specific_tour_found >= 2
                   THEN [s |-> 2, g |-> 0,
                         ind |-> <<Msg("Found %d specific tour details", <<specific_tour_found>>)>>]
                 ELSE [s |-> 0, g |-> 0, ind |-> <<>>]
      tourG   == IF ctype = K_tour /\ general_guide_found >= 3
                   THEN [s |-> 0, g |-> 3,
                         ind |-> <<Msg("Found %d destination guide keywords", <<general_guide_found>>)>>]
                 ELSE IF ctype = K_tour /\ general_guide_found >= 1
                   THEN [s |-> 0, g |-> 1,
                         ind |-> <<Msg("Found %d guide keyword", <<general_guide_found>>)>>]
                 ELSE [s |-> 0, g |-> 0, ind |-> <<>>]
      prices  == IF total_prices >= 10
                   THEN [s |-> 0, g |-> 3, ind |-> <<Msg("Found %d prices (listing)", <<total_prices>>)>>]
                 ELSE IF total_prices <= 3
                   THEN [s |-> 1, g |-> 0,
                         ind |-> <<Msg("Found %d price(s) (single item)", <<total_prices>>)>>]
                 ELSE [s |-> 0, g |-> 0, ind |-> <<>>]
  IN  [ card_count     |-> card_count,
        found          |-> [ booking |-> booking_found, filter |-> filter_found,
                             pagination |-> pagination_found,
                             specific_tour |-> specific_tour_found,
                             general_guide |-> general_guide_found,
                             prices |-> total_prices ],
        specific_score |-> cards.s + booking.s + filter.s + paging.s + tourS.s + tourG.s + prices.s,
        general_score  |-> cards.g + booking.g + filter.g + paging.g + tourS.g + tourG.g + prices.g,
        indicators     |-> cards.ind \o booking.ind \o filter.ind \o paging.ind
                             \o tourS.ind \o tourG.ind \o prices.ind ]

\* the resolution in which every tie goes to specific
Resolve_tie_specific(sheet) ==
  LET specific_score == sheet.specific_score
      general_score  == sheet.general_score
      total_score    == specific_score + general_score
  IN  IF total_score = 0
        THEN Analysis("specific", R(40, 100), <<Msg("No clear HTML indicators", <<>>)>>)
      ELSE IF specific_score > general_score
        THEN Analysis("specific", RMin(R(95, 100), R(specific_score, total_score)),
                      FirstThree(sheet.indicators))
      ELSE IF general_score > specific_score
        THEN Analysis("general", RMin(R(95, 100), R(general_score, total_score)),
                      FirstThree(sheet.indicators))
      ELSE Analysis("specific", R(55, 100),
                    <<Msg("Tie broken by booking elements over card count", <<>>)>>)

\* "Calculate result" of _analyze_html_structure
Resolve(sheet) ==
  LET specific_score == sheet.specific_score
      general_score  == sheet.general_score
      total_score    == specific_score + general_score
  IN  IF total_score = 0
        THEN Analysis("specific", R(40, 100), <<Msg("No clear HTML indicators", <<>>)>>)
      ELSE IF specific_score > general_score
        THEN Analysis("specific", RMin(R(95, 100), R(specific_score, total_score)),
                      FirstThree(sheet.indicators))
      ELSE IF general_score > specific_score
        THEN Analysis("general", RMin(R(95, 100), R(general_score, total_score)),
                      FirstThree(sheet.indicators))
      ELSE IF sheet.card_count >= 5
        THEN Analysis("general", R(60, 100),
                      <<Msg("Tie broken by %d cards (listing indicator)", <<sheet.card_count>>)>>)
      ELSE Analysis("specific", R(55, 100),
                    <<Msg("Tie broken by booking elements over card count", <<>>)>>)

analyze_html_structure(doc, ctype) == Resolve(ScoreSheet(doc, ctype))

\* ------------------------------------------------------------------------
\* Inputs of the page-type cascade
\* ------------------------------------------------------------------------

V_category == <<"h","t","t","p","s",":","/","/","e","x","a","m","p","l","e",".","c","o","m","/","t","o","u","r","s","/","c","a","t","e","g","o","r","y","-","x">>
V_viator == <<"h","t","t","p","s",":","/","/","e","x","a","m","p","l","e",".","c","o","m","/","t","o","u","r","s","/","d","7","4","2","-","9","9","9","9","9">>
V_plural == <<"h","t","t","p","s",":","/","/","e","x","a","m","p","l","e",".","c","o","m","/","t","o","u","r","s","/">>
V_plain == <<"h","t","t","p","s",":","/","/","e","x","a","m","p","l","e",".","c","o","m","/","f","o","o">>
V_remax == <<"h","t","t","p","s",":","/","/","w","w","w",".","r","e","m","a","x",".","c","o","m","/","f","o","o">>
V_property == <<"h","t","t","p","s",":","/","/","e","x","a","m","p","l","e",".","c","o","m","/","p","r","o","p","e","r","t","y","/","v","i","l","l","a","-","1">>
V_deep_plural == <<"h","t","t","p","s",":","/","/","e","x","a","m","p","l","e",".","c","o","m","/","a","/","b","/","c","/","t","o","u","r","s">>
V_search_id == <<"h","t","t","p","s",":","/","/","e","x","a","m","p","l","e",".","c","o","m","/","s","e","a","r","c","h","/","x","-","1","2","3","4","5">>
V_search == <<"h","t","t","p","s",":","/","/","e","x","a","m","p","l","e",".","c","o","m","/","s","e","a","r","c","h">>
V_home == <<"h","t","t","p","s",":","/","/","e","x","a","m","p","l","e",".","c","o","m","/">>

Filler(n) == [i \in 1..n |-> "z"]

\* a card-like container whose text has n characters
Card(cls, n) == [tag |-> "div", cls |-> cls, text |-> Filler(n)]

Cards(k, cls) == [i \in 1..k |-> Card(cls, MinCardText + 1)]

Para(text) == [tag |-> "p", cls |-> <<>>, text |-> text]

T_welcome == <<"W","e","l","c","o","m","e">>
T_paging == <<" ","N","e","x","t"," ","p","a","g","e"," ","o","f"," ","t","o","u","r","s"," ">>
T_booking == <<" ","B","o","o","k"," ","n","o","w"," ","o","r"," ","r","e","s","e","r","v","e"," ">>
T_prices5 == <<" ","$","1","0"," ","$","2","0"," ","$","3","0"," ","$","4","0"," ","$","5","0"," ">>
T_filters == <<" ","F","i","l","t","e","r"," ","a","n","d"," ","s","o","r","t"," ","b","y"," ","p","r","i","c","e","."," ","S","h","o","w","i","n","g"," ","r","e","s","u","l","t","s"," ">>
T_tour_detail == <<" ","W","h","a","t","'","s"," ","i","n","c","l","u","d","e","d",","," ","m","e","e","t","i","n","g"," ","p","o","i","n","t"," ">>
T_guide == <<" ","E","x","p","l","o","r","e"," ","a","n","d"," ","d","i","s","c","o","v","e","r"," ","t","h","i","n","g","s"," ","t","o"," ","d","o"," ">>

T_meeting == <<" ","V","i","s","i","t"," ","t","h","e"," ","m","e","e","t","i","n","g"," ","p","o","i","n","t"," ","a","t"," ","t","h","e"," ","p","i","e","r"," ">>
T_cancel == <<" ","C","a","n","c","e","l","l","a","t","i","o","n"," ","p","o","l","i","c","y"," ">>

\* no signal at all
P_plain == <<Para(T_welcome)>>
\* 6 cards and 2 pagination phrases
P_cards_paged == Cards(6, <<"t","o","u","r","-","c","a","r","d">>) \o <<Para(T_paging)>>
\* 6 cards against 2 booking phrases
P_cards_booking == Cards(6, <<"P","r","o","d","u","c","t"," ","I","t","e","m">>) \o <<Para(T_booking), Para(T_prices5)>>
\* 3 cards against 2 booking phrases
P_few_cards_booking == Cards(3, <<"l","i","s","t","i","n","g">>) \o <<Para(T_booking), Para(T_prices5)>>
\* filters, pagination and 10 prices
P_listing == <<Para(T_filters), Para(T_paging), Para(T_prices5), Para(T_prices5)>>
\* booking phrases and tour details
P_tour_detail == <<Para(T_tour_detail), Para(T_booking)>>
\* destination-guide language
P_guide == <<Para(T_guide)>>
\* 5 cards, and a sixth whose text is not longer than 50 characters
P_short_card == Cards(5, <<"c","a","r","d">>) \o <<Card(<<"c","a","r","d">>, MinCardText), Para(T_booking)>>
\* 3 cards and nothing else
P_few_cards == Cards(3, <<"i","t","e","m">>)
\* five prices and nothing else
P_prices_only == <<Para(T_prices5)>>
\* one tour-detail phrase and one guide phrase
P_one_detail == <<Para(T_meeting), Para(T_prices5)>>
\* three tour-detail phrases
P_full_detail == <<Para(T_tour_detail), Para(T_cancel), Para(T_prices5)>>

PageUrls == {None, <<>>, U_bad, V_category, V_viator, V_plural, V_plain, V_remax,
             V_property, V_deep_plural, V_search_id, V_search, V_home}

HtmlDocs == {P_plain, P_cards_paged, P_cards_booking, P_few_cards_booking, P_listing,
             P_tour_detail, P_guide, P_short_card, P_few_cards, P_prices_only,
             P_one_detail, P_full_detail}

PageDocs == {NoHtml, <<>>} \cup HtmlDocs

\* `if not html`
HasHtml(d) == d # NoHtml /\ d # <<>>

PageContentTypes == {K_tour, K_restaurant, O_hotel}

\* ------------------------------------------------------------------------
\* Bounds and input sets
\* ------------------------------------------------------------------------

\* number of consecutive invocations of a cascade on the same page
MaxCalls == 2

ContentUrls == {None, <<>>, U_yelp, U_tripadvisor, U_olx_yelp, U_unknown, U_bad, U_uber}

ContentDocs == {NoHtml, <<>>, D_tips_all, D_restaurant, D_restaurant_high,
                D_restaurant_more, D_taxi, D_tie, D_script}

Overrides == {None, <<>>, K_restaurant, K_local_tips, O_Tour, O_hotel}

RegistryKeys == {CONTENT_TYPES[i].key : i \in 1..Len(CONTENT_TYPES)}

\* What the LLM collaborator does when it is asked for a content type.
\*   advanced        page_type_detection.detect_content_type is importable
\*                   and answers
\*   advanced_error  it is importable and raises
\*   reply           the import fails; the chat completion answers `content`
\*   api_error       the import fails; the chat completion raises
\*   no_client       the import fails; the client cannot be constructed
LLMBehaviours ==
  {[kind |-> "advanced", content_type |-> K_tour, confidence |-> R(9, 10)],
   [kind |-> "advanced", content_type |-> K_restaurant, confidence |-> R(3, 4)],
   [kind |-> "advanced_error"],
   [kind |-> "reply", content |-> A_tour_raw],
   [kind |-> "reply", content |-> A_restaurant],
   [kind |-> "reply", content |-> A_hotel],
   [kind |-> "api_error"],
   [kind |-> "no_client"]}

Unset == [kind |-> "unset"]

\* The two pure strategies, tabulated over the inputs (each is evaluated once
\* per input instead of once per state).
by_domain == [u \in ContentUrls |-> detect_by_domain(u)]

by_keywords == [d \in ContentDocs |-> detect_by_keywords(d, R(3, 10))]

\* ------------------------------------------------------------------------
\* Strategy 4: classify_with_llm
\* ------------------------------------------------------------------------

Returned(type, confidence) == [raised |-> FALSE, type |-> type, confidence |-> confidence]
Raised == [raised |-> TRUE]

\* _simple_llm_classify without the validation of the reply
simple_llm_classify_unvalidated(b) ==
  IF b.kind = "no_client" THEN Raised
  ELSE IF b.kind = "api_error" THEN Returned(K_real_estate, R(3, 10))
  ELSE Returned(Lower(Strip(b.content)), R(85, 100))

\* _simple_llm_classify: the client is built outside the try block; the
\* reply is stripped, lower-cased and validated against the registry.
simple_llm_classify(b) ==
  IF b.kind = "no_client" THEN Raised
  ELSE IF b.kind = "api_error" THEN Returned(K_real_estate, R(3, 10))
  ELSE LET content_type == Lower(Strip(b.content))
       IN  IF content_type \in RegistryKeys
           THEN Returned(content_type, R(85, 100))
           ELSE Returned(K_real_estate, R(5, 10))

\* page_type_detection.detect_content_type, imported by classify_with_llm:
\* the answer of the LLM classifier, a category with a confidence.
detect_ct_openai(b) == [content_type |-> b.content_type, confidence |-> b.confidence]

classify_with_llm(b) ==
  IF b.kind = "advanced"
  THEN LET res == detect_ct_openai(b) IN Returned(res.content_type, res.confidence)
  ELSE IF b.kind = "advanced_error" THEN Returned(K_real_estate, R(3, 10))
  ELSE simple_llm_classify(b)

\* ------------------------------------------------------------------------
\* detect_content_type as a state machine
\* ------------------------------------------------------------------------

VARIABLES
  pc,                 \* position of the running invocation
  url, html,          \* arguments
  user_override, use_llm_fallback,
  domain_type,        \* locals of detect_content_type
  keyword_type, keyword_confidence,
  llm,                \* behaviour of the (stubbed) LLM collaborator, once used
  stages,             \* detection strategies run by this invocation, in order
  result,             \* the returned dictionary
  call_no,            \* index of the running invocation
  prev_result,        \* what the previous invocation returned
  prev_override,      \* and the override it was given
  content_type,       \* argument of detect_page_type
  url_result,         \* locals of detect_page_type
  html_result,
  final_type, final_confidence,
  openai_result,
  page_result,        \* the dictionary returned by detect_page_type
  registry,           \* the module-level dictionary CONTENT_TYPES
  workers             \* the invocations running in parallel workers

content_vars == <<user_override, use_llm_fallback, domain_type, keyword_type,
                  keyword_confidence, llm, result, call_no, prev_result,
                  prev_override>>

page_vars == <<content_type, url_result, html_result, final_type,
               final_confidence, openai_result, page_result>>

worker_vars == <<registry, workers>>

vars == <<pc, url, html, stages, content_vars, page_vars, worker_vars>>

NoResult == [method |-> "none"]

NoAnalysis == [raised |-> FALSE, page_type |-> "none", confidence |-> R(0, 1), reason |-> <<>>]

NoPageResult == [method |-> "none"]

Result(type, confidence, method) ==
  [content_type |-> type, confidence |-> confidence, method |-> method,
   suggested_type |-> type]

Init ==
  /\ pc = "start"
  /\ url \in ContentUrls
  /\ html \in ContentDocs
  /\ user_override \in Overrides
  /\ use_llm_fallback \in BOOLEAN
  /\ domain_type = None
  /\ keyword_type = None
  /\ keyword_confidence = R(0, 1)
  /\ llm = Unset
  /\ stages = <<>>
  /\ result = NoResult
  /\ call_no = 1
  /\ prev_result = NoResult
  /\ prev_override = None
  /\ content_type = None
  /\ url_result = NoAnalysis
  /\ html_result = NoAnalysis
  /\ final_type = "none"
  /\ final_confidence = R(0, 1)
  /\ openai_result = Unset
  /\ page_result = NoPageResult
  /\ registry = CONTENT_TYPES
  /\ workers = <<>>

\* Strategy 1 that notes a valid override but still goes on to the domains
UserOverride_no_return ==
  /\ pc = "start"
  /\ stages' = Append(stages, "user_override")
  /\ pc' = "domain"
  /\ UNCHANGED <<url, html, user_override, use_llm_fallback, domain_type,
                 keyword_type, keyword_confidence, llm, result, call_no,
                 prev_result, prev_override>>
  /\ UNCHANGED page_vars
  /\ UNCHANGED worker_vars

\* Strategy 1 that accepts any non-empty override
UserOverride_unvalidated ==
  /\ pc = "start"
  /\ stages' = Append(stages, "user_override")
  /\ IF Truthy(user_override)
     THEN /\ result' = Result(user_override, R(1, 1), "user_override")
          /\ pc' = "done"
     ELSE /\ pc' = "domain"
          /\ UNCHANGED result
  /\ UNCHANGED <<url, html, user_override, use_llm_fallback, domain_type,
                 keyword_type, keyword_confidence, llm, call_no, prev_result,
                 prev_override>>
  /\ UNCHANGED page_vars
  /\ UNCHANGED worker_vars

\* Strategy 1: user override
UserOverride ==
  /\ pc = "start"
  /\ stages' = Append(stages, "user_override")
  /\ IF Truthy(user_override) /\ user_override \in RegistryKeys
     THEN /\ result' = Result(user_override, R(1, 1), "user_override")
          /\ pc' = "done"
     ELSE /\ pc' = "domain"
          /\ UNCHANGED result
  /\ UNCHANGED <<url, html, user_override, use_llm_fallback, domain_type,
                 keyword_type, keyword_confidence, llm, call_no, prev_result,
                 prev_override>>
  /\ UNCHANGED page_vars
  /\ UNCHANGED worker_vars

\* Strategy 2: domain detection
Domain ==
  /\ pc = "domain"
  /\ stages' = Append(stages, "domain")
  /\ domain_type' = by_domain[url]
  /\ IF Truthy(domain_type')
     THEN /\ result' = Result(domain_type', R(95, 100), "domain")
          /\ pc' = "done"
     ELSE /\ pc' = "keywords"
          /\ UNCHANGED result
  /\ UNCHANGED <<url, html, user_override, use_llm_fallback, keyword_type,
                 keyword_confidence, llm, call_no, prev_result, prev_override>>
  /\ UNCHANGED page_vars
  /\ UNCHANGED worker_vars

\* Strategy 3: keyword analysis
Keywords ==
  /\ pc = "keywords"
  /\ stages' = Append(stages, "keywords")
  /\ LET kw == by_keywords[html]
     IN  /\ keyword_type' = kw.type
         /\ keyword_confidence' = kw.confidence
         /\ IF Truthy(kw.type) /\ RLe(R(7, 10), kw.confidence)
            THEN /\ result' = Result(kw.type, kw.confidence, "keywords_high_confidence")
                 /\ pc' = "done"
            ELSE /\ pc' = "llm"
                 /\ UNCHANGED result
  /\ UNCHANGED <<url, html, user_override, use_llm_fallback, domain_type, llm,
                 call_no, prev_result, prev_override>>
  /\ UNCHANGED page_vars
  /\ UNCHANGED worker_vars

\* Strategy 4 without the test of use_llm_fallback
LLM_always ==
  /\ pc = "llm"
  /\ \E b \in LLMBehaviours :
       /\ llm \in {Unset, b}
       /\ llm' = b
       /\ LET answer == classify_with_llm(b)
          IN  IF answer.raised
              THEN /\ pc' = "raised"
                   /\ UNCHANGED result
              ELSE /\ result' = Result(answer.type, answer.confidence, "llm")
                   /\ pc' = "done"
  /\ stages' = Append(stages, "llm")
  /\ UNCHANGED <<url, html, user_override, use_llm_fallback, domain_type,
                 keyword_type, keyword_confidence, call_no, prev_result,
                 prev_override>>
  /\ UNCHANGED page_vars
  /\ UNCHANGED worker_vars

\* the LLM stage that returns the keyword category when the LLM call fails
LLM_keeps_keywords ==
  /\ pc = "llm"
  /\ use_llm_fallback
  /\ \E b \in LLMBehaviours :
       /\ llm \in {Unset, b}
       /\ llm' = b
       /\ LET answer == classify_with_llm(b)
          IN  IF answer.raised
              THEN /\ pc' = "raised"
                   /\ UNCHANGED result
              ELSE /\ result' = IF b.kind \in {"advanced_error", "api_error"} /\ Truthy(keyword_type)
                                THEN Result(keyword_type, keyword_confidence,
                                            "keywords_medium_confidence")
                                ELSE Result(answer.type, answer.confidence, "llm")
                   /\ pc' = "done"
  /\ stages' = Append(stages, "llm")
  /\ UNCHANGED <<url, html, user_override, use_llm_fallback, domain_type,
                 keyword_type, keyword_confidence, call_no, prev_result,
                 prev_override>>
  /\ UNCHANGED page_vars
  /\ UNCHANGED worker_vars

\* Strategy 4: LLM classification, only if the caller opted in
LLM ==
  /\ pc = "llm"
  /\ use_llm_fallback
  /\ \E b \in LLMBehaviours :
       /\ llm \in {Unset, b}
       /\ llm' = b
       /\ LET answer == classify_with_llm(b)
          IN  IF answer.raised
              THEN /\ pc' = "raised"
                   /\ UNCHANGED result
              ELSE /\ result' = Result(answer.type, answer.confidence, "llm")
                   /\ pc' = "done"
  /\ stages' = Append(stages, "llm")
  /\ UNCHANGED <<url, html, user_override, use_llm_fallback, domain_type,
                 keyword_type, keyword_confidence, call_no, prev_result,
                 prev_override>>
  /\ UNCHANGED page_vars
  /\ UNCHANGED worker_vars

\* Fallback: keyword result below 0.7, or the default category
Fallback ==
  /\ pc = "llm"
  /\ ~use_llm_fallback
  /\ result' = IF Truthy(keyword_type)
               THEN Result(keyword_type, keyword_confidence, "keywords_medium_confidence")
               ELSE Result(K_real_estate, R(3, 10), "default_fallback")
  /\ pc' = "done"
  /\ UNCHANGED <<url, html, user_override, use_llm_fallback, domain_type,
                 keyword_type, keyword_confidence, llm, stages, call_no,
                 prev_result, prev_override>>
  /\ UNCHANGED page_vars
  /\ UNCHANGED worker_vars

\* The caller invokes detect_content_type again for the same page, with the
\* same override or with none.
Reinvoke ==
  /\ pc = "done"
  /\ call_no < MaxCalls
  /\ call_no' = call_no + 1
  /\ prev_result' = result
  /\ prev_override' = user_override
  /\ user_override' \in {user_override, None}
  /\ pc' = "start"
  /\ domain_type' = None
  /\ keyword_type' = None
  /\ keyword_confidence' = R(0, 1)
  /\ stages' = <<>>
  /\ result' = NoResult
  /\ UNCHANGED <<url, html, use_llm_fallback, llm>>
  /\ UNCHANGED page_vars
  /\ UNCHANGED worker_vars

Next == UserOverride \/ Domain \/ Keywords \/ LLM \/ Fallback \/ Reinvoke

Spec == Init /\ [][Next]_vars

\* ------------------------------------------------------------------------
\* Level 3: _analyze_with_openai
\* ------------------------------------------------------------------------

\* What the LLM adjudicator does when asked for a page type: it answers with
\* a JSON object (whose page_type and confidence are whatever it wrote), or
\* the call fails (network error, timeout, unparsable or incomplete JSON).
OpenAIBehaviours ==
  {[kind |-> "answer", page_type |-> t, confidence |-> c, tokens |-> 400] :
      t \in {"specific", "general", "listing"},
      c \in {R(9, 10), R(1, 2), R(3, 2), R(-1, 5)}}
  \cup {[kind |-> "error", error |-> e] : e \in {"timeout", "JSONDecodeError"}}

\* seconds spent in the call, as measured by time.time()
Elapsed == {R(1, 1), R(2, 1)}

analyze_with_openai(b, elapsed) ==
  IF b.kind = "answer"
  THEN [ page_type  |-> b.page_type,
         confidence |-> b.confidence,
         reason     |-> <<Msg("reasoning", <<>>)>>,
         cost       |-> R(b.tokens * 15, 10000000),
         time       |-> elapsed ]
  ELSE [ page_type  |-> "specific",
         confidence |-> R(40, 100),
         reason     |-> <<Msg("OpenAI analysis failed: ", <<>>), Msg(b.error, <<>>)>>,
         cost       |-> R(0, 1),
         time       |-> elapsed ]

\* ------------------------------------------------------------------------
\* detect_page_type as a state machine
\* ------------------------------------------------------------------------

by_url == [u \in PageUrls |-> analyze_url_patterns(u, K_tour)]

by_html == [d \in HtmlDocs, c \in PageContentTypes |-> analyze_html_structure(d, c)]

sheet_of == [d \in HtmlDocs, c \in PageContentTypes |-> ScoreSheet(d, c)]

PageResult(page_type, confidence, method, indicators, cost, time) ==
  [page_type |-> page_type, confidence |-> confidence, method |-> method,
   indicators |-> indicators, cost |-> cost, time |-> time]

\* the vote in which a tie goes to the URL analyzer
Level2Vote_tie_url(u, h) ==
  LET combined_confidence == RAdd(RMul(u.confidence, R(4, 10)), RMul(h.confidence, R(6, 10)))
  IN  IF u.page_type = h.page_type
        THEN [ final_type |-> u.page_type,
               final_confidence |-> RMin(R(95, 100), RAdd(combined_confidence, R(15, 100))),
               agreement |-> "Both URL and HTML agree" ]
      ELSE IF RLt(u.confidence, h.confidence)
        THEN [ final_type |-> h.page_type,
               final_confidence |-> h.confidence,
               agreement |-> "HTML signal stronger than URL" ]
      ELSE [ final_type |-> u.page_type,
             final_confidence |-> u.confidence,
             agreement |-> "URL signal stronger than HTML" ]

\* the vote without the cap on the agreement bonus
Level2Vote_uncapped(u, h) ==
  LET combined_confidence == RAdd(RMul(u.confidence, R(4, 10)), RMul(h.confidence, R(6, 10)))
  IN  IF u.page_type = h.page_type
        THEN [ final_type |-> u.page_type,
               final_confidence |-> RAdd(combined_confidence, R(15, 100)),
               agreement |-> "Both URL and HTML agree" ]
      ELSE IF RLt(u.confidence, h.confidence)
        THEN [ final_type |-> h.page_type,
               final_confidence |-> h.confidence,
               agreement |-> "HTML signal stronger than URL" ]
      ELSE IF RLt(h.confidence, u.confidence)
        THEN [ final_type |-> u.page_type,
               final_confidence |-> u.confidence,
               agreement |-> "URL signal stronger than HTML" ]
      ELSE [ final_type |-> h.page_type,
             final_confidence |-> RMul(h.confidence, R(9, 10)),
             agreement |-> "TIE - preferring HTML (more information)" ]

\* "Combine URL + HTML signals"
Level2Vote(u, h) ==
  LET combined_confidence == RAdd(RMul(u.confidence, R(4, 10)), RMul(h.confidence, R(6, 10)))
  IN  IF u.page_type = h.page_type
        THEN [ final_type |-> u.page_type,
               final_confidence |-> RMin(R(95, 100), RAdd(combined_confidence, R(15, 100))),
               agreement |-> "Both URL and HTML agree" ]
      ELSE IF RLt(u.confidence, h.confidence)
        THEN [ final_type |-> h.page_type,
               final_confidence |-> h.confidence,
               agreement |-> "HTML signal stronger than URL" ]
      ELSE IF RLt(h.confidence, u.confidence)
        THEN [ final_type |-> u.page_type,
               final_confidence |-> u.confidence,
               agreement |-> "URL signal stronger than HTML" ]
      ELSE [ final_type |-> h.page_type,
             final_confidence |-> RMul(h.confidence, R(9, 10)),
             agreement |-> "TIE - preferring HTML (more information)" ]

\* 0.5 * 0.4 + 0.75 * 0.6 + 0.15 is 0.7999999999999999 in binary floating
\* point, the only reachable blend whose rounding crosses a threshold.
RoundsBelow(u, h) ==
  /\ u.page_type = h.page_type
  /\ u.confidence = R(1, 2)
  /\ h.confidence = R(3, 4)

\* final_confidence < 0.80
NeedsLevel3(u, h) ==
  RLt(Level2Vote(u, h).final_confidence, R(80, 100)) \/ RoundsBelow(u, h)

InitPage ==
  /\ pc = "level1"
  /\ url \in PageUrls
  /\ html \in PageDocs
  /\ content_type \in PageContentTypes
  /\ url_result = NoAnalysis
  /\ html_result = NoAnalysis
  /\ final_type = "none"
  /\ final_confidence = R(0, 1)
  /\ openai_result = Unset
  /\ page_result = NoPageResult
  /\ stages = <<>>
  /\ user_override = None
  /\ use_llm_fallback = FALSE
  /\ domain_type = None
  /\ keyword_type = None
  /\ keyword_confidence = R(0, 1)
  /\ llm = Unset
  /\ result = NoResult
  /\ call_no = 1
  /\ prev_result = NoResult
  /\ prev_override = None
  /\ registry = CONTENT_TYPES
  /\ workers = <<>>

\* Level 1 that stops only above 0.90
Level1_strict ==
  /\ pc = "level1"
  /\ stages' = Append(stages, "url_patterns")
  /\ LET u == by_url[url]
     IN  IF u.raised
         THEN /\ pc' = "raised"
              /\ UNCHANGED <<url_result, page_result>>
         ELSE /\ url_result' = u
              /\ IF RLt(R(90, 100), u.confidence)
                 THEN /\ page_result' = PageResult(u.page_type, u.confidence, "url_pattern",
                                                   <<u.reason>>, R(0, 1), R(1, 10))
                      /\ pc' = "page_done"
                 ELSE /\ pc' = "level2"
                      /\ UNCHANGED page_result
  /\ UNCHANGED <<url, html, content_type, html_result, final_type, final_confidence,
                 openai_result>>
  /\ UNCHANGED content_vars
  /\ UNCHANGED worker_vars

\* Level 1: URL pattern analysis
Level1 ==
  /\ pc = "level1"
  /\ stages' = Append(stages, "url_patterns")
  /\ LET u == by_url[url]
     IN  IF u.raised
         THEN /\ pc' = "raised"
              /\ UNCHANGED <<url_result, page_result>>
         ELSE /\ url_result' = u
              /\ IF RLe(R(90, 100), u.confidence)
                 THEN /\ page_result' = PageResult(u.page_type, u.confidence, "url_pattern",
                                                   <<u.reason>>, R(0, 1), R(1, 10))
                      /\ pc' = "page_done"
                 ELSE /\ pc' = "level2"
                      /\ UNCHANGED page_result
  /\ UNCHANGED <<url, html, content_type, html_result, final_type, final_confidence,
                 openai_result>>
  /\ UNCHANGED content_vars
  /\ UNCHANGED worker_vars

\* Level 2 that lowers the confidence of the URL analyzer when there is no HTML
Level2_lowered ==
  /\ pc = "level2"
  /\ IF ~HasHtml(html)
     THEN /\ page_result' = PageResult(url_result.page_type,
                               RMul(url_result.confidence, R(9, 10)),
                               "url_pattern_only",
                               <<url_result.reason, <<Msg("No HTML for deeper validation", <<>>)>> >>,
                               R(0, 1), R(1, 10))
          /\ pc' = "page_done"
          /\ UNCHANGED <<html_result, final_type, final_confidence, stages>>
     ELSE LET h    == by_html[html, content_type]
              vote == Level2Vote(url_result, h)
          IN  /\ html_result' = h
              /\ final_type' = vote.final_type
              /\ final_confidence' = vote.final_confidence
              /\ stages' = Append(stages, "html_structure")
              /\ IF NeedsLevel3(url_result, h)
                 THEN /\ pc' = "level3"
                      /\ UNCHANGED page_result
                 ELSE /\ page_result' = PageResult(vote.final_type, vote.final_confidence,
                                           "url_html_combined",
                                           <<url_result.reason, h.reason,
                                             <<Msg(vote.agreement, <<>>)>> >>,
                                           R(0, 1), R(1, 2))
                      /\ pc' = "page_done"
  /\ UNCHANGED <<url, html, content_type, url_result, openai_result>>
  /\ UNCHANGED content_vars
  /\ UNCHANGED worker_vars

\* Level 2: HTML structure analysis and the weighted vote
Level2 ==
  /\ pc = "level2"
  /\ IF ~HasHtml(html)
     THEN /\ page_result' = PageResult(url_result.page_type, url_result.confidence,
                               "url_pattern_only",
                               <<url_result.reason, <<Msg("No HTML for deeper validation", <<>>)>> >>,
                               R(0, 1), R(1, 10))
          /\ pc' = "page_done"
          /\ UNCHANGED <<html_result, final_type, final_confidence, stages>>
     ELSE LET h    == by_html[html, content_type]
              vote == Level2Vote(url_result, h)
          IN  /\ html_result' = h
              /\ final_type' = vote.final_type
              /\ final_confidence' = vote.final_confidence
              /\ stages' = Append(stages, "html_structure")
              /\ IF NeedsLevel3(url_result, h)
                 THEN /\ pc' = "level3"
                      /\ UNCHANGED page_result
                 ELSE /\ page_result' = PageResult(vote.final_type, vote.final_confidence,
                                           "url_html_combined",
                                           <<url_result.reason, h.reason,
                                             <<Msg(vote.agreement, <<>>)>> >>,
                                           R(0, 1), R(1, 2))
                      /\ pc' = "page_done"
  /\ UNCHANGED <<url, html, content_type, url_result, openai_result>>
  /\ UNCHANGED content_vars
  /\ UNCHANGED worker_vars

\* Level 3 that keeps the page type of Level 2 when the LLM disagrees
Level3_keeps_type ==
  /\ pc = "level3"
  /\ stages' = Append(stages, "openai")
  /\ \E b \in OpenAIBehaviours : \E elapsed \in Elapsed :
       LET o == analyze_with_openai(b, elapsed)
           indicators == <<url_result.reason, html_result.reason,
                           <<Msg("OpenAI: ", <<>>)>> \o o.reason>>
       IN  /\ llm \in {Unset, b}
           /\ llm' = b
           /\ openai_result' = o
           /\ IF o.page_type = final_type
              THEN /\ final_confidence' = RMin(R(95, 100), o.confidence)
                   /\ UNCHANGED final_type
                   /\ page_result' = PageResult(final_type, final_confidence',
                                        "url_html_openai_agreed", indicators, o.cost,
                                        RAdd(R(1, 2), o.time))
              ELSE /\ UNCHANGED final_type
                   /\ final_confidence' = o.confidence
                   /\ page_result' = PageResult(final_type, o.confidence,
                                        "url_html_openai_override", indicators, o.cost,
                                        RAdd(R(1, 2), o.time))
  /\ pc' = "page_done"
  /\ UNCHANGED <<url, html, content_type, url_result, html_result>>
  /\ UNCHANGED <<user_override, use_llm_fallback, domain_type, keyword_type,
                 keyword_confidence, result, call_no, prev_result, prev_override>>
  /\ UNCHANGED worker_vars

\* Level 3: the LLM adjudicator
Level3 ==
  /\ pc = "level3"
  /\ stages' = Append(stages, "openai")
  /\ \E b \in OpenAIBehaviours : \E elapsed \in Elapsed :
       LET o == analyze_with_openai(b, elapsed)
           indicators == <<url_result.reason, html_result.reason,
                           <<Msg("OpenAI: ", <<>>)>> \o o.reason>>
       IN  /\ llm \in {Unset, b}
           /\ llm' = b
           /\ openai_result' = o
           /\ IF o.page_type = final_type
              THEN /\ final_confidence' = RMin(R(95, 100), o.confidence)
                   /\ UNCHANGED final_type
                   /\ page_result' = PageResult(final_type, final_confidence',
                                        "url_html_openai_agreed", indicators, o.cost,
                                        RAdd(R(1, 2), o.time))
              ELSE /\ final_type' = o.page_type
                   /\ final_confidence' = o.confidence
                   /\ page_result' = PageResult(o.page_type, o.confidence,
                                        "url_html_openai_override", indicators, o.cost,
                                        RAdd(R(1, 2), o.time))
  /\ pc' = "page_done"
  /\ UNCHANGED <<url, html, content_type, url_result, html_result>>
  /\ UNCHANGED <<user_override, use_llm_fallback, domain_type, keyword_type,
                 keyword_confidence, result, call_no, prev_result, prev_override>>
  /\ UNCHANGED worker_vars

\* The caller invokes detect_page_type again with the same url, html and
\* content_type; the stubbed LLM answers as it did before.
ReinvokePage ==
  /\ pc = "page_done"
  /\ call_no < MaxCalls
  /\ call_no' = call_no + 1
  /\ prev_result' = page_result
  /\ pc' = "level1"
  /\ url_result' = NoAnalysis
  /\ html_result' = NoAnalysis
  /\ final_type' = "none"
  /\ final_confidence' = R(0, 1)
  /\ openai_result' = Unset
  /\ page_result' = NoPageResult
  /\ stages' = <<>>
  /\ UNCHANGED <<url, html, content_type, llm>>
  /\ UNCHANGED <<user_override, use_llm_fallback, domain_type, keyword_type,
                 keyword_confidence, result, prev_override>>
  /\ UNCHANGED worker_vars

NextPage == Level1 \/ Level2 \/ Level3 \/ ReinvokePage

SpecPage == InitPage /\ [][NextPage]_vars

\* ------------------------------------------------------------------------
\* Registry helpers (content_types.py, content_detection.py)
\* ------------------------------------------------------------------------

Value(v) == [raised |-> FALSE, value |-> v]

\* a field of the registry entry of a category, e.g. config['label']
Field(name, key) == [field |-> name, of |-> key]

\* `content_type in CONTENT_TYPES`
KeysOf(reg) == {reg[i].key : i \in 1..Len(reg)}

get_content_type_config(reg, key) ==
  IF key \notin KeysOf(reg) THEN Raised
  ELSE Value(Field("config", key))

\* the prompt constants are taken to be importable
get_extraction_prompt(reg, key) ==
  LET config == get_content_type_config(reg, key)
  IN  IF config.raised THEN Raised
      ELSE Value(Field("prompt", key))

\* CONTENT_TYPES.get(content_type), with the key itself as default label
get_content_type_label(reg, key) ==
  IF key \in KeysOf(reg) THEN Value(Field("label", key))
  ELSE Value(Field("content_type", key))

\* CONTENT_TYPES.get(content_type), with a page icon as default
get_content_type_icon(reg, key) ==
  IF key \in KeysOf(reg) THEN Value(Field("icon", key))
  ELSE Value(Field("default_icon", key))

Helpers ==
  {"get_content_type_config", "get_extraction_prompt", "get_content_type_label",
   "get_content_type_icon"}

CallHelper(fn, reg, key) ==
  IF fn = "get_content_type_config" THEN get_content_type_config(reg, key)
  ELSE IF fn = "get_extraction_prompt" THEN get_extraction_prompt(reg, key)
  ELSE IF fn = "get_content_type_label" THEN get_content_type_label(reg, key)
  ELSE get_content_type_icon(reg, key)

\* ------------------------------------------------------------------------
\* Invocations in parallel workers
\* ------------------------------------------------------------------------

\* number of workers that run an invocation each, their steps interleaved
NumWorkers == 2

Workers == 1..NumWorkers

Job(fn, u, d, o, f, c, k) ==
  [fn |-> fn, url |-> u, html |-> d, user_override |-> o, use_llm_fallback |-> f,
   content_type |-> c, key |-> k]

ContentJob(u, d, o, f) == Job("detect_content_type", u, d, o, f, None, None)

PageJob(u, d, c) == Job("detect_page_type", u, d, None, FALSE, c, None)

LookupJob(fn, k) == Job(fn, None, NoHtml, None, FALSE, None, k)

WorkerJobs ==
  { ContentJob(U_unknown, D_restaurant_more, None, FALSE),
    ContentJob(U_unknown, D_taxi, O_hotel, TRUE),
    ContentJob(U_yelp, D_tips_all, None, FALSE),
    ContentJob(U_uber, <<>>, K_local_tips, TRUE),
    PageJob(V_viator, P_plain, K_tour),
    PageJob(V_category, P_cards_paged, K_tour),
    PageJob(<<>>, P_guide, K_tour) }
  \cup {LookupJob(fn, k) : fn \in Helpers, k \in {K_tour, O_hotel}}

\* the stubbed LLM collaborators of a run: the content classifier and the
\* page adjudicator
WorkerStubs ==
  { [content |-> [kind |-> "advanced", content_type |-> K_tour, confidence |-> R(9, 10)],
     page    |-> [kind |-> "answer", page_type |-> "specific", confidence |-> R(9, 10),
                  tokens |-> 400]],
    [content |-> [kind |-> "reply", content |-> A_hotel],
     page    |-> [kind |-> "error", error |-> "timeout"]] }

FirstStep(job) ==
  IF job.fn = "detect_content_type" THEN "start"
  ELSE IF job.fn = "detect_page_type" THEN "level1"
  ELSE "lookup"

\* a worker about to run its invocation: the locals of the call
NewWorker(job) ==
  [ job |-> job, pc |-> FirstStep(job),
    domain_type |-> None, keyword_type |-> None, keyword_confidence |-> R(0, 1),
    url_result |-> NoAnalysis, html_result |-> NoAnalysis,
    final_type |-> "none", final_confidence |-> R(0, 1),
    stages |-> <<>>, result |-> NoResult ]

sequential_vars == <<pc, url, html, stages, content_vars>>

InitWorkers ==
  /\ workers \in [Workers -> {NewWorker(j) : j \in WorkerJobs}]
  /\ registry = CONTENT_TYPES
  /\ llm \in WorkerStubs
  /\ pc = "idle"
  /\ url = None
  /\ html = NoHtml
  /\ stages = <<>>
  /\ user_override = None
  /\ use_llm_fallback = FALSE
  /\ domain_type = None
  /\ keyword_type = None
  /\ keyword_confidence = R(0, 1)
  /\ result = NoResult
  /\ call_no = 1
  /\ prev_result = NoResult
  /\ prev_override = None
  /\ content_type = None
  /\ url_result = NoAnalysis
  /\ html_result = NoAnalysis
  /\ final_type = "none"
  /\ final_confidence = R(0, 1)
  /\ openai_result = Unset
  /\ page_result = NoPageResult

\* worker w takes the step that leaves it in the state `next`
Step(w, next) ==
  /\ workers' = [workers EXCEPT ![w] = next]
  /\ UNCHANGED registry
  /\ UNCHANGED sequential_vars
  /\ UNCHANGED page_vars

Ran(me, stage) == [me EXCEPT !.stages = Append(@, stage)]

Return(me, res) == [me EXCEPT !.pc = "done", !.result = res]

\* Strategy 1 in worker w
WUserOverride(w) ==
  LET me == workers[w]
      o  == me.job.user_override
  IN  /\ me.job.fn = "detect_content_type"
      /\ me.pc = "start"
      /\ Step(w, IF Truthy(o) /\ o \in KeysOf(registry)
                 THEN Return(Ran(me, "user_override"), Result(o, R(1, 1), "user_override"))
                 ELSE [Ran(me, "user_override") EXCEPT !.pc = "domain"])

\* Strategy 2 in worker w
WDomain(w) ==
  LET me == workers[w]
      dt == by_domain[me.job.url]
  IN  /\ me.pc = "domain"
      /\ Step(w, IF Truthy(dt)
                 THEN Return([Ran(me, "domain") EXCEPT !.domain_type = dt],
                             Result(dt, R(95, 100), "domain"))
                 ELSE [Ran(me, "domain") EXCEPT !.domain_type = dt, !.pc = "keywords"])

\* Strategy 3 with the keyword result kept in module-level variables that
\* all workers share
WKeywords_shared(w) ==
  LET me == workers[w]
      kw == by_keywords[me.job.html]
  IN  /\ me.pc = "keywords"
      /\ workers' =
           [v \in Workers |->
              LET seen == [workers[v] EXCEPT !.keyword_type = kw.type,
                                            !.keyword_confidence = kw.confidence]
              IN  IF v # w THEN seen
                  ELSE IF Truthy(kw.type) /\ RLe(R(7, 10), kw.confidence)
                  THEN Return(Ran(seen, "keywords"),
                              Result(kw.type, kw.confidence, "keywords_high_confidence"))
                  ELSE [Ran(seen, "keywords") EXCEPT !.pc = "llm"]]
      /\ UNCHANGED registry
      /\ UNCHANGED sequential_vars
      /\ UNCHANGED page_vars

\* Strategy 3 in worker w
WKeywords(w) ==
  LET me   == workers[w]
      kw   == by_keywords[me.job.html]
      seen == [me EXCEPT !.keyword_type = kw.type, !.keyword_confidence = kw.confidence]
  IN  /\ me.pc = "keywords"
      /\ Step(w, IF Truthy(kw.type) /\ RLe(R(7, 10), kw.confidence)
                 THEN Return(Ran(seen, "keywords"),
                             Result(kw.type, kw.confidence, "keywords_high_confidence"))
                 ELSE [Ran(seen, "keywords") EXCEPT !.pc = "llm"])

\* Strategy 4 in worker w
WLLM(w) ==
  LET me     == workers[w]
      answer == classify_with_llm(llm.content)
  IN  /\ me.job.fn = "detect_content_type"
      /\ me.pc = "llm"
      /\ me.job.use_llm_fallback
      /\ Step(w, IF answer.raised THEN [Ran(me, "llm") EXCEPT !.pc = "raised"]
                 ELSE Return(Ran(me, "llm"), Result(answer.type, answer.confidence, "llm")))

\* the fallback in worker w
WFallback(w) ==
  LET me == workers[w]
  IN  /\ me.job.fn = "detect_content_type"
      /\ me.pc = "llm"
      /\ ~me.job.use_llm_fallback
      /\ Step(w, Return(me, IF Truthy(me.keyword_type)
                            THEN Result(me.keyword_type, me.keyword_confidence,
                                        "keywords_medium_confidence")
                            ELSE Result(K_real_estate, R(3, 10), "default_fallback")))

\* Level 1 in worker w
WLevel1(w) ==
  LET me == workers[w]
      u  == by_url[me.job.url]
  IN  /\ me.pc = "level1"
      /\ Step(w, IF u.raised THEN [Ran(me, "url_patterns") EXCEPT !.pc = "raised"]
                 ELSE IF RLe(R(90, 100), u.confidence)
                 THEN Return([Ran(me, "url_patterns") EXCEPT !.url_result = u],
                             PageResult(u.page_type, u.confidence, "url_pattern",
                                        <<u.reason>>, R(0, 1), R(1, 10)))
                 ELSE [Ran(me, "url_patterns") EXCEPT !.url_result = u, !.pc = "level2"])

\* Level 2 in worker w
WLevel2(w) ==
  LET me   == workers[w]
      u    == me.url_result
      h    == by_html[me.job.html, me.job.content_type]
      vote == Level2Vote(u, h)
      seen == [Ran(me, "html_structure") EXCEPT !.html_result = h,
                                                !.final_type = vote.final_type,
                                                !.final_confidence = vote.final_confidence]
  IN  /\ me.pc = "level2"
      /\ Step(w, IF ~HasHtml(me.job.html)
                 THEN Return(me, PageResult(u.page_type, u.confidence, "url_pattern_only",
                                   <<u.reason, <<Msg("No HTML for deeper validation", <<>>)>> >>,
                                   R(0, 1), R(1, 10)))
                 ELSE IF NeedsLevel3(u, h) THEN [seen EXCEPT !.pc = "level3"]
                 ELSE Return(seen, PageResult(vote.final_type, vote.final_confidence,
                                     "url_html_combined",
                                     <<u.reason, h.reason, <<Msg(vote.agreement, <<>>)>> >>,
                                     R(0, 1), R(1, 2))))

\* the dictionary detect_page_type returns after Level 3
AfterOpenAI(url_reason, html_reason, level2_type, o) ==
  LET indicators == <<url_reason, html_reason, <<Msg("OpenAI: ", <<>>)>> \o o.reason>>
  IN  IF o.page_type = level2_type
      THEN PageResult(level2_type, RMin(R(95, 100), o.confidence),
                      "url_html_openai_agreed", indicators, o.cost, RAdd(R(1, 2), o.time))
      ELSE PageResult(o.page_type, o.confidence,
                      "url_html_openai_override", indicators, o.cost, RAdd(R(1, 2), o.time))

\* Level 3 in worker w
WLevel3(w) ==
  LET me == workers[w]
  IN  /\ me.pc = "level3"
      /\ \E elapsed \in Elapsed :
           LET res == AfterOpenAI(me.url_result.reason, me.html_result.reason, me.final_type,
                                  analyze_with_openai(llm.page, elapsed))
           IN  Step(w, Return([Ran(me, "openai") EXCEPT !.final_type = res.page_type,
                                                       !.final_confidence = res.confidence],
                              res))

\* a registry helper called in worker w
WLookup(w) ==
  LET me      == workers[w]
      outcome == CallHelper(me.job.fn, registry, me.job.key)
  IN  /\ me.pc = "lookup"
      /\ Step(w, IF outcome.raised THEN [me EXCEPT !.pc = "raised"]
                 ELSE Return(me, outcome.value))

NextWorkers ==
  \E w \in Workers :
    \/ WUserOverride(w)
    \/ WDomain(w)
    \/ WKeywords(w)
    \/ WLLM(w)
    \/ WFallback(w)
    \/ WLevel1(w)
    \/ WLevel2(w)
    \/ WLevel3(w)
    \/ WLookup(w)

SpecWorkers == InitWorkers /\ [][NextWorkers]_vars

\* ------------------------------------------------------------------------
\* Properties of detect_content_type
\* ------------------------------------------------------------------------

ValidOverride(o) == Truthy(o) /\ o \in RegistryKeys
InvalidOverride(o) == o # None /\ o \notin RegistryKeys

\* the domain, after lower-casing and removal of "www.", contains one of the
\* domain substrings configured for the category
HostMatches(u, config) ==
  /\ Truthy(u)
  /\ urlparse(u).ok
  /\ DomainMatches(RemoveAll(Lower(urlparse(u).netloc), <<"w","w","w",".">>), config)

HostTable == [u \in ContentUrls |-> {i \in 1..Len(CONTENT_TYPES) : HostMatches(u, CONTENT_TYPES[i])}]

\* C1: with a valid override o the invocation runs the override strategy only
\* and returns (o, 1.0, user_override), whatever url, html and
\* use_llm_fallback are.
C1_OverrideWins ==
  ValidOverride(user_override) =>
    /\ pc \in {"start", "done"}
    /\ pc = "done" =>
         /\ result = Result(user_override, R(1, 1), "user_override")
         /\ stages = <<"user_override">>

\* a valid override was honoured although the host belongs to another
\* category and the keywords to a third
C1_Witness ==
  /\ pc = "done"
  /\ user_override = K_restaurant
  /\ url = U_uber
  /\ html = D_tips_all
  /\ use_llm_fallback
  /\ result.method = "user_override"

\* C2: without an override, a URL whose host contains a domain substring
\* configured for category c is detected as (c, 0.95, domain), for every
\* category c for which it does.
C2_DomainOfEveryCategory ==
  (pc = "done" /\ user_override = None) =>
    \A i \in HostTable[url] :
      result = Result(CONTENT_TYPES[i].key, R(95, 100), "domain")

C4_InvalidOverrideIgnored ==
  /\ (pc = "done" /\ InvalidOverride(user_override)) =>
       /\ result.method # "user_override"
       /\ result.content_type # user_override
  /\ (pc = "done" /\ call_no > 1 /\ InvalidOverride(prev_override)
        /\ user_override = None) =>
       result = prev_result

\* the second invocation, without the invalid override of the first, got as
\* far as the keywords
C4_Witness ==
  /\ pc = "done"
  /\ call_no = 2
  /\ prev_override = O_Tour
  /\ user_override = None
  /\ result.method = "keywords_medium_confidence"
  /\ result = prev_result

HeuristicMethods ==
  {"domain", "keywords_high_confidence", "keywords_medium_confidence", "default_fallback"}

\* C5: a confidence derived from heuristics lies in [0, 0.95], and 1.0 is
\* returned for a user override only.
C5_HeuristicConfidenceCapped ==
  /\ pc = "done" =>
       /\ result.method \in HeuristicMethods =>
            RLe(R(0, 1), result.confidence) /\ RLe(result.confidence, R(95, 100))
       /\ result.confidence = R(1, 1) => result.method = "user_override"
  /\ (pc = "page_done"
        /\ page_result.method \in {"url_pattern", "url_pattern_only", "url_html_combined"}) =>
       RLe(R(0, 1), page_result.confidence) /\ RLe(page_result.confidence, R(95, 100))

\* ------------------------------------------------------------------------
\* Properties of detect_page_type
\* ------------------------------------------------------------------------

PageMethods ==
  {"url_pattern", "url_pattern_only", "url_html_combined", "url_html_openai_agreed",
   "url_html_openai_override"}

\* the HTML analyzer has run in this invocation
HtmlAnalysed == Len(stages) >= 2 /\ stages[2] = "html_structure"

\* the LLM adjudicator was called in this invocation and the call failed
OpenAIFailed ==
  /\ pc = "page_done"
  /\ Len(stages) = 3
  /\ openai_result.reason[1] = Msg("OpenAI analysis failed: ", <<>>)

\* C6: every result of detect_page_type is well-formed: page_type is
\* 'specific' or 'general', confidence lies in [0, 1] and method is one of
\* the five method tags.
C6_PageResultWellFormed ==
  pc = "page_done" =>
    /\ page_result.page_type \in {"specific", "general"}
    /\ RLe(R(0, 1), page_result.confidence)
    /\ RLe(page_result.confidence, R(1, 1))
    /\ page_result.method \in PageMethods

\* C7: when the call of the LLM adjudicator fails, detect_page_type returns
\* the page type of Level 2, with a confidence of at most 0.40 and an
\* indicator that names the failure.
C7_FailureKeepsLevel2 ==
  OpenAIFailed =>
    /\ page_result.page_type = Level2Vote(url_result, html_result).final_type
    /\ RLe(page_result.confidence, R(40, 100))
    /\ page_result.indicators[3][2] = Msg("OpenAI analysis failed: ", <<>>)

\* C8: neither cascade lets an exception escape.
C8_NeverRaises == pc # "raised"

\* no card, no booking, filter, pagination or category phrase, no price
ZeroSignals(sheet) ==
  /\ sheet.card_count = 0
  /\ \A k \in DOMAIN sheet.found : sheet.found[k] = 0

\* C9: HTML without any detectable signal is analysed as
\* (specific, 0.40, 'No clear HTML indicators').
C9_ZeroSignalsUnclear ==
  (HtmlAnalysed /\ ZeroSignals(sheet_of[html, content_type])) =>
    html_result = Analysis("specific", R(40, 100), <<Msg("No clear HTML indicators", <<>>)>>)

\* a /tours/<segment> URL without ID, and HTML whose only signals are
\* 6 cards and 2 pagination phrases
CategoryUrlAndPagedCards ==
  /\ HtmlAnalysed
  /\ url_result = Analysis("general", R(85, 100), <<Msg("Category/destination page", <<>>)>>)
  /\ LET sheet == sheet_of[html, content_type]
     IN  /\ sheet.card_count = 6
         /\ sheet.found.pagination = 2
         /\ \A k \in DOMAIN sheet.found \ {"pagination"} : sheet.found[k] = 0

\* C10 as stated: Level 2 then yields 'general' with a confidence strictly
\* between 0.6 and 0.95.
C10_GeneralBelowCap ==
  CategoryUrlAndPagedCards =>
    /\ final_type = "general"
    /\ RLt(R(6, 10), final_confidence)
    /\ RLt(final_confidence, R(95, 100))

\* C10, amended: Level 2 then yields 'general' with the confidence capped at
\* 0.95, that is, above 0.6 and not above 0.95.
C10_GeneralAtCap ==
  CategoryUrlAndPagedCards =>
    /\ final_type = "general"
    /\ RLt(R(6, 10), final_confidence)
    /\ RLe(final_confidence, R(95, 100))
    /\ final_confidence = R(95, 100)

C10_Witness ==
  /\ pc = "page_done"
  /\ url = V_category
  /\ html = P_cards_paged
  /\ CategoryUrlAndPagedCards
  /\ page_result.method = "url_html_combined"
  /\ page_result.page_type = "general"

\* the URL analyzer returns for this URL, with a confidence of at least 0.90
UrlConfident == ~by_url[url].raised /\ RLe(R(90, 100), by_url[url].confidence)

\* the URL analyzer returns for this URL, with a confidence below 0.90
UrlUnsure == ~by_url[url].raised /\ RLt(by_url[url].confidence, R(90, 100))

\* C11: when the URL analyzer's confidence is at least 0.90, detect_page_type
\* returns the analyzer's page type and confidence with method url_pattern,
\* one indicator and cost 0, with or without html, and neither the HTML
\* analyzer nor the LLM runs.
C11_UrlPatternTerminal ==
  (UrlConfident /\ pc # "level1") =>
    /\ pc = "page_done"
    /\ page_result.page_type = by_url[url].page_type
    /\ page_result.confidence = by_url[url].confidence
    /\ page_result.method = "url_pattern"
    /\ page_result.indicators = <<by_url[url].reason>>
    /\ Len(page_result.indicators) = 1
    /\ page_result.cost = R(0, 1)
    /\ stages = <<"url_patterns">>
    /\ html_result = NoAnalysis
    /\ openai_result = Unset

\* a path ending in /tours/ is 'general' at exactly 0.90 and the cascade
\* stopped at Level 1 although html was supplied
C11_Witness ==
  /\ pc = "page_done"
  /\ url = V_plural
  /\ HasHtml(html)
  /\ page_result.method = "url_pattern"
  /\ page_result.page_type = "general"
  /\ page_result.confidence = R(90, 100)

\* C12: when the URL analyzer's confidence is below 0.90 and html is absent
\* or empty, detect_page_type returns the analyzer's page type and confidence
\* unchanged, with method url_pattern_only and cost 0, and neither the HTML
\* analyzer nor the LLM runs; a result with method url_pattern_only has a
\* confidence below 0.90.
C12_UrlPatternOnly ==
  /\ (UrlUnsure /\ ~HasHtml(html)) =>
       /\ pc \in {"level1", "level2", "page_done"}
       /\ pc = "page_done" =>
            /\ page_result.page_type = by_url[url].page_type
            /\ page_result.confidence = by_url[url].confidence
            /\ page_result.method = "url_pattern_only"
            /\ page_result.cost = R(0, 1)
            /\ stages = <<"url_patterns">>
            /\ html_result = NoAnalysis
            /\ openai_result = Unset
  /\ (pc = "page_done" /\ page_result.method = "url_pattern_only") =>
       RLt(page_result.confidence, R(90, 100))

\* a property slug (0.85) and an empty html
C12_Witness ==
  /\ pc = "page_done"
  /\ url = V_property
  /\ html = <<>>
  /\ page_result.method = "url_pattern_only"
  /\ page_result.confidence = R(85, 100)

\* C13: a second invocation with the same arguments and the same stubbed LLM
\* returns what the first returned: the same dictionary for
\* detect_content_type, and for detect_page_type a dictionary equal in
\* page_type, confidence, method, indicators, cost and time.
C13_Idempotent ==
  /\ (pc = "done" /\ call_no > 1 /\ user_override = prev_override) =>
       result = prev_result
  /\ (pc = "page_done" /\ call_no > 1) =>
       /\ page_result.page_type = prev_result.page_type
       /\ page_result.confidence = prev_result.confidence
       /\ page_result.method = prev_result.method
       /\ page_result.indicators = prev_result.indicators
       /\ page_result.cost = prev_result.cost
       /\ page_result.time = prev_result.time

\* ------------------------------------------------------------------------
\* Properties of detect_by_keywords
\* ------------------------------------------------------------------------

\* the texts detect_by_keywords can score
Texts == ContentDocs \ {NoHtml}

\* the keywords of each category that occur in the text of a document
found_of ==
  [d \in Texts |->
     [i \in 1..Len(CONTENT_TYPES) |->
        {k \in 1..Len(CONTENT_TYPES[i].keywords) :
           Contains(Lower(VisibleText(d)), Lower(CONTENT_TYPES[i].keywords[k]))}]]

\* the share of a category's keywords that occur in the document
Share(d, i) == R(Cardinality(found_of[d][i]), Len(CONTENT_TYPES[i].keywords))

\* the winning category: the first one whose share no other exceeds
Winner(d) ==
  CHOOSE i \in 1..Len(CONTENT_TYPES) :
    /\ \A j \in 1..Len(CONTENT_TYPES) : RLe(Share(d, j), Share(d, i))
    /\ \A j \in 1..(i - 1) : RLt(Share(d, j), Share(d, i))

winner_of == [d \in Texts |-> Winner(d)]

\* t2 has every keyword of t1's winning category that t1 has, and as many
\* matches as t1 in every other category
AddsToWinner(t1, t2) ==
  /\ found_of[t1][winner_of[t1]] \subseteq found_of[t2][winner_of[t1]]
  /\ \A j \in 1..Len(CONTENT_TYPES) :
       j # winner_of[t1] => Cardinality(found_of[t1][j]) = Cardinality(found_of[t2][j])

\* the keyword strategy has run in this invocation
KeywordsRan == Len(stages) >= 3 /\ stages[3] = "keywords"

\* C14: when the scored text has all the keywords of the winning category of
\* a text t1 and the same matches as t1 in the other categories, the
\* confidence detect_by_keywords computes is not below the one it computes
\* for t1, and the category is still the winner.
C14_KeywordsMonotonic ==
  (KeywordsRan /\ html \in Texts) =>
    \A t1 \in Texts :
      AddsToWinner(t1, html) =>
        /\ winner_of[html] = winner_of[t1]
        /\ RLe(by_keywords[t1].confidence, keyword_confidence)
        /\ RLe(Share(t1, winner_of[t1]), keyword_confidence)
        /\ Truthy(by_keywords[t1].type) => keyword_type = by_keywords[t1].type

\* two restaurant keywords were added to a text that scored 11 of 20
C14_Witness ==
  /\ KeywordsRan
  /\ html = D_restaurant_more
  /\ AddsToWinner(D_restaurant, html)
  /\ found_of[D_restaurant][3] # found_of[html][3]
  /\ by_keywords[D_restaurant] = [type |-> K_restaurant, confidence |-> R(11, 20)]
  /\ keyword_type = K_restaurant
  /\ keyword_confidence = R(13, 20)

\* the keyword scorer found a winning category with at least one keyword
SomeCategory == html \in Texts /\ RLt(R(0, 1), Share(html, winner_of[html]))

\* the winning category of the scored text has a share below min_confidence
BelowThreshold == SomeCategory /\ RLt(Share(html, winner_of[html]), R(3, 10))

\* C15: when the winning category's confidence is below min_confidence,
\* detect_by_keywords returns that category, not None, with its confidence.
C15_BelowThresholdKeepsCategory ==
  (KeywordsRan /\ BelowThreshold) =>
    /\ keyword_type = CONTENT_TYPES[winner_of[html]].key
    /\ keyword_confidence = Share(html, winner_of[html])

\* the invocation has returned or raised
Finished == pc \in {"done", "raised"}

\* the keyword strategy's result for this page is a category at 0.7 or more
KeywordsHigh ==
  Truthy(by_keywords[html].type) /\ RLe(R(7, 10), by_keywords[html].confidence)

\* no valid override, no domain match and no keyword result at 0.7 or more
NothingCheaper ==
  /\ ~ValidOverride(user_override)
  /\ ~Truthy(by_domain[url])
  /\ ~KeywordsHigh

LLMCalled == \E k \in 1..Len(stages) : stages[k] = "llm"

\* C16: the strategies run in the order override, domain, keywords, LLM; the
\* LLM is called if and only if use_llm_fallback is true and there is no valid
\* override, no domain match and no keyword result at 0.7 or more; when it is
\* called, the result is the classifier's category and confidence with
\* method llm.
C16_LLMOnlyFourth ==
  /\ \E n \in 0..4 : stages = SubSeq(<<"user_override", "domain", "keywords", "llm">>, 1, n)
  /\ Finished => (LLMCalled <=> (use_llm_fallback /\ NothingCheaper))
  /\ ~use_llm_fallback => ~LLMCalled /\ llm = Unset
  /\ (pc = "done" /\ LLMCalled) =>
       /\ ~classify_with_llm(llm).raised
       /\ result = Result(classify_with_llm(llm).type, classify_with_llm(llm).confidence, "llm")

\* the keywords found restaurant at 0.65, the caller opted in, and the
\* result is the classifier's tour at 0.9
C16_Witness ==
  /\ pc = "done"
  /\ use_llm_fallback
  /\ html = D_restaurant_more
  /\ keyword_type = K_restaurant
  /\ llm = [kind |-> "advanced", content_type |-> K_tour, confidence |-> R(9, 10)]
  /\ stages = <<"user_override", "domain", "keywords", "llm">>
  /\ result = Result(K_tour, R(9, 10), "llm")

\* the invocation returned from the fallback after the LLM was not opted in
FellBack == pc = "done" /\ ~use_llm_fallback /\ NothingCheaper

\* C17: without valid override, domain match, keyword confidence of 0.7 or
\* more and LLM, a category found by the keywords, however low its
\* confidence, is returned with that confidence and method
\* keywords_medium_confidence; real_estate at 0.3 with method
\* default_fallback is returned only when the keywords found no category.
C17_AnyCategoryMedium ==
  FellBack =>
    /\ SomeCategory =>
         result = Result(CONTENT_TYPES[winner_of[html]].key,
                         Share(html, winner_of[html]), "keywords_medium_confidence")
    /\ ~SomeCategory => result = Result(K_real_estate, R(3, 10), "default_fallback")

\* C20: when the LLM adjudicator agrees with Level 2, the returned confidence
\* (method url_html_openai_agreed) is not lower than the Level-2 confidence
\* that caused the escalation.
C20_AgreementRaises ==
  (pc = "page_done" /\ page_result.method = "url_html_openai_agreed") =>
    /\ page_result.page_type = Level2Vote(url_result, html_result).final_type
    /\ page_result.confidence = RMin(R(95, 100), openai_result.confidence)
    /\ RLe(Level2Vote(url_result, html_result).final_confidence, page_result.confidence)

\* ------------------------------------------------------------------------
\* Properties of invocations in parallel workers
\* ------------------------------------------------------------------------

Outcome(raised, res) == [raised |-> raised, result |-> res]

\* what detect_content_type returns for a job when it runs alone
AloneContent(job) ==
  LET kw     == by_keywords[job.html]
      answer == classify_with_llm(llm.content)
  IN  IF ValidOverride(job.user_override)
        THEN Outcome(FALSE, Result(job.user_override, R(1, 1), "user_override"))
      ELSE IF Truthy(by_domain[job.url])
        THEN Outcome(FALSE, Result(by_domain[job.url], R(95, 100), "domain"))
      ELSE IF Truthy(kw.type) /\ RLe(R(7, 10), kw.confidence)
        THEN Outcome(FALSE, Result(kw.type, kw.confidence, "keywords_high_confidence"))
      ELSE IF job.use_llm_fallback
        THEN (IF answer.raised THEN Outcome(TRUE, NoResult)
              ELSE Outcome(FALSE, Result(answer.type, answer.confidence, "llm")))
      ELSE IF Truthy(kw.type)
        THEN Outcome(FALSE, Result(kw.type, kw.confidence, "keywords_medium_confidence"))
      ELSE Outcome(FALSE, Result(K_real_estate, R(3, 10), "default_fallback"))

\* what detect_page_type returns for a job when it runs alone and the LLM
\* call, if there is one, takes `elapsed` seconds
AlonePage(job, elapsed) ==
  LET u    == by_url[job.url]
      h    == by_html[job.html, job.content_type]
      vote == Level2Vote(u, h)
  IN  IF u.raised THEN Outcome(TRUE, NoResult)
      ELSE IF RLe(R(90, 100), u.confidence)
        THEN Outcome(FALSE, PageResult(u.page_type, u.confidence, "url_pattern",
                                       <<u.reason>>, R(0, 1), R(1, 10)))
      ELSE IF ~HasHtml(job.html)
        THEN Outcome(FALSE, PageResult(u.page_type, u.confidence, "url_pattern_only",
                              <<u.reason, <<Msg("No HTML for deeper validation", <<>>)>> >>,
                              R(0, 1), R(1, 10)))
      ELSE IF NeedsLevel3(u, h)
        THEN Outcome(FALSE, AfterOpenAI(u.reason, h.reason, vote.final_type,
                                        analyze_with_openai(llm.page, elapsed)))
      ELSE Outcome(FALSE, PageResult(vote.final_type, vote.final_confidence,
                            "url_html_combined",
                            <<u.reason, h.reason, <<Msg(vote.agreement, <<>>)>> >>,
                            R(0, 1), R(1, 2)))

\* what a registry helper returns for a job when it runs alone
AloneLookup(job) ==
  LET outcome == CallHelper(job.fn, CONTENT_TYPES, job.key)
  IN  IF outcome.raised THEN Outcome(TRUE, NoResult) ELSE Outcome(FALSE, outcome.value)

\* the worker's invocation ended as it ends when it runs alone (the seconds
\* measured around the LLM call are those of some run)
AsAlone(me) ==
  LET mine == Outcome(me.pc = "raised", me.result)
  IN  IF me.job.fn = "detect_content_type" THEN mine = AloneContent(me.job)
      ELSE IF me.job.fn = "detect_page_type"
        THEN \E elapsed \in Elapsed : mine = AlonePage(me.job, elapsed)
      ELSE mine = AloneLookup(me.job)

WorkerFinished(w) == workers[w].pc \in {"done", "raised"}

\* C18: no invocation of the cascades or the registry helpers modifies the
\* registry, and under every interleaving of the steps of parallel
\* invocations each invocation returns what it returns when it runs alone.
C18_WorkersIndependent ==
  /\ registry = CONTENT_TYPES
  /\ \A w \in DOMAIN workers : WorkerFinished(w) => AsAlone(workers[w])

\* a worker returned its own keyword result while another worker, which has
\* scored a different page, is between its keyword step and its LLM call
C18_Witness ==
  /\ DOMAIN workers = Workers
  /\ \E w \in Workers : \E v \in Workers \ {w} :
       /\ workers[w].job = ContentJob(U_unknown, D_restaurant_more, None, FALSE)
       /\ workers[v].job = ContentJob(U_unknown, D_taxi, O_hotel, TRUE)
       /\ workers[w].pc = "done"
       /\ workers[w].result = Result(K_restaurant, R(13, 20), "keywords_medium_confidence")
       /\ workers[v].pc = "llm"
       /\ workers[v].keyword_type = None

\* C19: each of get_content_type_config, get_extraction_prompt,
\* get_content_type_label and get_content_type_icon raises for a key that is
\* not in the registry, while such a key given as override is only ignored.
C19_UnknownKeyRaises ==
  \A w \in DOMAIN workers :
    LET me == workers[w]
    IN  /\ (me.job.fn \in Helpers /\ me.job.key \notin RegistryKeys) =>
             me.pc \in {"lookup", "raised"}
        /\ (me.job.fn = "detect_content_type" /\ InvalidOverride(me.job.user_override)) =>
             /\ me.pc # "raised"
             /\ me.pc = "done" => me.result.method # "user_override"

\* ------------------------------------------------------------------------
\* Properties of Level 2 and Level 3 of detect_page_type
\* ------------------------------------------------------------------------

\* Level 2 has voted and Level 3 has not run: final_type and
\* final_confidence are those of Level 2
Level2Voted == HtmlAnalysed /\ Len(stages) = 2

\* 0.4 * u + 0.6 * h
Blend(u, h) == RAdd(RMul(R(4, 10), u), RMul(R(6, 10), h))

\* C21: at Level 2, analyzers that agree give their type at
\* min(0.95, 0.4u + 0.6h + 0.15); when they differ, the HTML verdict wins at
\* h if h > u, the URL verdict at u if u > h, and the HTML verdict at 0.9h
\* if u = h.
C21_WeightedVote ==
  Level2Voted =>
    LET ut == url_result.page_type
        ht == html_result.page_type
        u  == url_result.confidence
        h  == html_result.confidence
    IN  /\ url_result = by_url[url]
        /\ html_result = by_html[html, content_type]
        /\ ut = ht =>
             /\ final_type = ut
             /\ final_confidence = RMin(R(95, 100), RAdd(Blend(u, h), R(15, 100)))
        /\ (ut # ht /\ RLt(u, h)) => (final_type = ht /\ final_confidence = h)
        /\ (ut # ht /\ RLt(h, u)) => (final_type = ut /\ final_confidence = u)
        /\ (ut # ht /\ u = h) =>
             (final_type = ht /\ final_confidence = RMul(R(9, 10), h))

\* a real-estate host (specific, 0.60) against six cards and two booking
\* phrases (general, 0.60): the tie goes to the HTML verdict at 0.54
C21_Witness ==
  /\ Level2Voted
  /\ url = V_remax
  /\ html = P_cards_booking
  /\ url_result.page_type = "specific"
  /\ html_result.page_type = "general"
  /\ url_result.confidence = html_result.confidence
  /\ final_type = "general"
  /\ final_confidence = R(54, 100)

\* the LLM adjudicator was called in this invocation
OpenAICalled == \E k \in 1..Len(stages) : stages[k] = "openai"

\* the number of calls of the LLM adjudicator in this invocation
OpenAICalls == Cardinality({k \in 1..Len(stages) : stages[k] = "openai"})

\* the confidence of the Level-2 vote for this url and html
Level2Confidence ==
  LET u  == by_url[url]
      h  == by_html[html, content_type]
  IN  IF u.page_type = h.page_type
        THEN RMin(R(95, 100), RAdd(Blend(u.confidence, h.confidence), R(15, 100)))
      ELSE IF RLt(u.confidence, h.confidence) THEN h.confidence
      ELSE IF RLt(h.confidence, u.confidence) THEN u.confidence
      ELSE RMul(R(9, 10), h.confidence)

\* C22: the LLM adjudicator is called exactly when the URL confidence is
\* below 0.90, html is present and the Level-2 confidence is below 0.80, and
\* then once; a Level-2 confidence of 0.80 or more is returned with method
\* url_html_combined and cost 0; results of the heuristic methods cost 0 and
\* a url_html_combined result has a confidence in [0.80, 0.95].
C22_EscalationThreshold ==
  pc = "page_done" =>
    /\ OpenAICalled <=>
         (UrlUnsure /\ HasHtml(html) /\ RLt(Level2Confidence, R(80, 100)))
    /\ OpenAICalls <= 1
    /\ (UrlUnsure /\ HasHtml(html) /\ RLe(R(80, 100), Level2Confidence)) =>
         /\ page_result.method = "url_html_combined"
         /\ page_result.confidence = Level2Confidence
         /\ page_result.cost = R(0, 1)
    /\ page_result.method \in {"url_pattern", "url_pattern_only", "url_html_combined"} =>
         page_result.cost = R(0, 1)
    /\ page_result.method = "url_html_combined" =>
         (RLe(R(80, 100), page_result.confidence) /\ RLe(page_result.confidence, R(95, 100)))

\* the LLM adjudicator was called in this invocation and answered
OpenAIAnswered ==
  /\ pc = "page_done"
  /\ OpenAICalled
  /\ llm.kind = "answer"

\* C23: after an escalation in which the LLM answers, an answer equal to the
\* Level-2 page type gives that type at min(0.95, LLM confidence) with method
\* url_html_openai_agreed, any other answer gives the LLM's type and
\* confidence with method url_html_openai_override; the cost is the cost of
\* the LLM call and the indicators are the URL reason, the HTML reason and
\* the LLM's rationale.
C23_LLMVerdict ==
  OpenAIAnswered =>
    LET level2 == Level2Vote(by_url[url], by_html[html, content_type]).final_type
    IN  /\ openai_result.page_type = llm.page_type
        /\ openai_result.confidence = llm.confidence
        /\ llm.page_type = level2 =>
             /\ page_result.page_type = level2
             /\ page_result.confidence = RMin(R(95, 100), llm.confidence)
             /\ page_result.method = "url_html_openai_agreed"
        /\ llm.page_type # level2 =>
             /\ page_result.page_type = llm.page_type
             /\ page_result.confidence = llm.confidence
             /\ page_result.method = "url_html_openai_override"
        /\ page_result.cost = openai_result.cost
        /\ page_result.cost = R(llm.tokens * 15, 10000000)
        /\ Len(page_result.indicators) = 3
        /\ page_result.indicators[1] = by_url[url].reason
        /\ page_result.indicators[2] = by_html[html, content_type].reason
        /\ page_result.indicators[3] = <<Msg("OpenAI: ", <<>>)>> \o openai_result.reason

\* Level 2 said specific at 0.60, the LLM said general at 0.9
C23_Witness ==
  /\ OpenAIAnswered
  /\ url = <<>>
  /\ html = P_guide
  /\ content_type = K_tour
  /\ llm.page_type = "general"
  /\ llm.confidence = R(9, 10)
  /\ page_result.method = "url_html_openai_override"
  /\ page_result.page_type = "general"
  /\ page_result.confidence = R(9, 10)

\* ------------------------------------------------------------------------
\* Properties of the URL and HTML analyzers
\* ------------------------------------------------------------------------

Verdict(hit, page_type, confidence) ==
  [hit |-> hit, page_type |-> page_type, confidence |-> confidence]

\* the rules of the URL analyzer in their order, each with whether the URL
\* matches it and the verdict it gives
UrlRules(u) ==
  LET parsed == urlparse(u)
      path   == Lower(parsed.path)
      domain == Lower(parsed.netloc)
  IN  << Verdict(HasViatorId(path), "specific", R(95, 100)),
         Verdict(HasIdAfter(path, <<"/","t">>, 4), "specific", R(95, 100)),
         Verdict(HasIdAfter(path, <<"-">>, 5), "specific", R(90, 100)),
         Verdict(HasIdAfter(path, <<"/","l","i","s","t","i","n","g","-">>, 1), "specific", R(95, 100)),
         Verdict(HasReviewId(path), "specific", R(95, 100)),
         Verdict(HasPropertySlug(path), "specific", R(85, 100)),
         Verdict(PathDepth(path) >= 4, "specific", R(75, 100)),
         Verdict(EndsInPlural(path), "general", R(90, 100)),
         Verdict(IsCategoryCandidate(path) /\ ~HasDigitRun(LastSegment(path), 4),
                 "general", R(85, 100)),
         Verdict(HasSearchWord(path), "general", R(95, 100)),
         Verdict(path \in HomePaths, "general", R(90, 100)),
         Verdict(\E word \in RealEstateDomainWords : Contains(domain, word),
                 "specific", R(60, 100)),
         Verdict(TRUE, "specific", R(50, 100)) >>

FirstHit(rules) ==
  CHOOSE i \in 1..Len(rules) : rules[i].hit /\ \A j \in 1..(i - 1) : ~rules[j].hit

\* the URL analyzer ran on a URL it could parse
UrlAnalysed ==
  /\ Len(stages) >= 1
  /\ stages[1] = "url_patterns"
  /\ Truthy(url)
  /\ urlparse(url).ok

C25_Resolution ==
  HtmlAnalysed =>
    LET sheet == sheet_of[html, content_type]
        s     == sheet.specific_score
        g     == sheet.general_score
    IN  s + g > 0 =>
          /\ s > g => /\ html_result.page_type = "specific"
                       /\ html_result.confidence = RMin(R(95, 100), R(s, s + g))
          /\ g > s => /\ html_result.page_type = "general"
                       /\ html_result.confidence = RMin(R(95, 100), R(g, s + g))
          /\ (s = g /\ sheet.card_count >= 5) =>
                /\ html_result.page_type = "general"
                /\ html_result.confidence = R(60, 100)
          /\ (s = g /\ sheet.card_count < 5) =>
                /\ html_result.page_type = "specific"
                /\ html_result.confidence = R(55, 100)

\* six cards (general 3) against two booking phrases (specific 3)
C25_Witness ==
  /\ HtmlAnalysed
  /\ html = P_cards_booking
  /\ sheet_of[html, content_type].specific_score = 3
  /\ sheet_of[html, content_type].general_score = 3
  /\ html_result.page_type = "general"
  /\ html_result.confidence = R(60, 100)

\* three cards (general 1) against no price (specific 1)
C25_TieFewCards ==
  /\ HtmlAnalysed
  /\ html = P_few_cards
  /\ sheet_of[html, content_type].specific_score = sheet_of[html, content_type].general_score
  /\ html_result.page_type = "specific"
  /\ html_result.confidence = R(55, 100)

\* what the steps other than the tour phrases add to specific_score
BaseSpecific(sheet) ==
  (IF sheet.card_count < 2 THEN 2 ELSE 0)
    + (IF sheet.found.booking >= 2 THEN 3 ELSE 0)
    + (IF sheet.found.prices <= 3 THEN 1 ELSE 0)

\* what the steps other than the tour phrases add to general_score
BaseGeneral(sheet) ==
  (IF sheet.card_count >= 5 THEN 3 ELSE IF sheet.card_count >= 2 THEN 1 ELSE 0)
    + (IF sheet.found.filter >= 2 THEN 3 ELSE 0)
    + (IF sheet.found.pagination >= 2 THEN 2 ELSE 0)
    + (IF sheet.found.prices >= 10 THEN 3 ELSE 0)

\* what the transactional/detail phrases added to specific_score
DetailWeight(sheet) == sheet.specific_score - BaseSpecific(sheet)

\* what the descriptive/guide phrases added to general_score
GuideWeight(sheet) == sheet.general_score - BaseGeneral(sheet)

\* the largest weight the detail phrases add, and the guide phrases
FullDetailWeight == 2
FullGuideWeight == 3

\* C26: the phrase sets count only for the category tour, and both are
\* scaled by match count: full weight at three matches or more and a partial
\* weight at one or two, the detail phrases on specific_score and the guide
\* phrases on general_score.
C26_PhraseWeights ==
  HtmlAnalysed =>
    LET sheet  == sheet_of[html, content_type]
        detail == sheet.found.specific_tour
        guide  == sheet.found.general_guide
    IN  /\ html_result = Resolve(sheet)
        /\ content_type # K_tour => (DetailWeight(sheet) = 0 /\ GuideWeight(sheet) = 0)
        /\ content_type = K_tour =>
             /\ detail >= 3 => DetailWeight(sheet) = FullDetailWeight
             /\ detail \in 1..2 =>
                  (0 < DetailWeight(sheet) /\ DetailWeight(sheet) < FullDetailWeight)
             /\ detail = 0 => DetailWeight(sheet) = 0
             /\ guide >= 3 => GuideWeight(sheet) = FullGuideWeight
             /\ guide \in 1..2 =>
                  (0 < GuideWeight(sheet) /\ GuideWeight(sheet) < FullGuideWeight)
             /\ guide = 0 => GuideWeight(sheet) = 0

\* C26 as amended: the phrase sets count only for the category tour; the
\* detail phrases add 2 to specific_score at two matches or more and nothing
\* at one match; the guide phrases add 3 to general_score at three matches
\* or more and 1 at one or two matches.
C26_PhraseWeightsAmended ==
  HtmlAnalysed =>
    LET sheet  == sheet_of[html, content_type]
        detail == sheet.found.specific_tour
        guide  == sheet.found.general_guide
    IN  /\ html_result = Resolve(sheet)
        /\ content_type # K_tour => (DetailWeight(sheet) = 0 /\ GuideWeight(sheet) = 0)
        /\ content_type = K_tour =>
             /\ detail >= 2 => DetailWeight(sheet) = 2
             /\ detail <= 1 => DetailWeight(sheet) = 0
             /\ guide >= 3 => GuideWeight(sheet) = 3
             /\ guide \in 1..2 => GuideWeight(sheet) = 1
             /\ guide = 0 => GuideWeight(sheet) = 0

\* a tour page with one detail phrase ('meeting point') and one guide
\* phrase ('visit'): the first adds nothing, the second adds 1
C26_Witness ==
  /\ HtmlAnalysed
  /\ html = P_one_detail
  /\ content_type = K_tour
  /\ sheet_of[html, content_type].found.specific_tour = 1
  /\ sheet_of[html, content_type].found.general_guide = 1
  /\ DetailWeight(sheet_of[html, content_type]) = 0
  /\ GuideWeight(sheet_of[html, content_type]) = 1
  /\ html_result.page_type = "specific"
  /\ html_result.confidence = R(2, 3)

\* ------------------------------------------------------------------------
\* Properties of the keyword strategy and of the LLM fallback
\* ------------------------------------------------------------------------

\* C27: detect_by_keywords computes for every category the number of its
\* keywords that occur in the text, case-insensitively, divided by the number
\* of its keywords, and selects the category with the largest quotient, the
\* first in registry order when several share it.
C27_KeywordArgmax ==
  (KeywordsRan /\ html \in Texts) =>
    \E i \in 1..Len(CONTENT_TYPES) :
      /\ keyword_confidence = Share(html, i)
      /\ \A j \in 1..Len(CONTENT_TYPES) : RLe(Share(html, j), Share(html, i))
      /\ \A j \in 1..(i - 1) : RLt(Share(html, j), Share(html, i))
      /\ RLe(R(3, 10), Share(html, i)) => keyword_type = CONTENT_TYPES[i].key

\* 12 of 40 tour keywords and 6 of 20 restaurant keywords: tour comes first
\* in the registry
C27_Witness ==
  /\ KeywordsRan
  /\ html = D_tie
  /\ CONTENT_TYPES[2].key = K_tour
  /\ CONTENT_TYPES[3].key = K_restaurant
  /\ Share(html, 2) = Share(html, 3)
  /\ keyword_type = K_tour
  /\ keyword_confidence = R(3, 10)

\* C28: for every html and content_type the HTML analyzer returns a
\* confidence above 0.5 and at most 0.95: the card-count step adds to exactly
\* one of the two scores, so their sum is at least 1 at the resolution and
\* the result for no indicators (0.40) is never produced.
C28_HtmlConfidenceRange ==
  HtmlAnalysed =>
    LET sheet == sheet_of[html, content_type]
        cardS == IF sheet.card_count < 2 THEN 2 ELSE 0
        cardG == IF sheet.card_count >= 5 THEN 3 ELSE IF sheet.card_count >= 2 THEN 1 ELSE 0
    IN  /\ html_result = Resolve(sheet)
        /\ RLt(R(1, 2), html_result.confidence)
        /\ RLe(html_result.confidence, R(95, 100))
        /\ (cardS > 0) # (cardG > 0)
        /\ sheet.specific_score >= cardS
        /\ sheet.general_score >= cardG
        /\ sheet.specific_score + sheet.general_score >= 1
        /\ html_result.reason # <<Msg("No clear HTML indicators", <<>>)>>

\* five prices and no card: the card-count step is the only one that adds
\* to a score
C28_Witness ==
  /\ HtmlAnalysed
  /\ html = P_prices_only
  /\ sheet_of[html, content_type].card_count = 0
  /\ sheet_of[html, content_type].specific_score = 2
  /\ sheet_of[html, content_type].general_score = 0
  /\ html_result.page_type = "specific"
  /\ html_result.confidence = R(95, 100)

\* the LLM classifier was called and the call failed
LLMFailed ==
  /\ LLMCalled
  /\ llm.kind \in {"advanced_error", "api_error"}

\* C29: with use_llm_fallback true, detect_content_type never returns method
\* keywords_medium_confidence or default_fallback; a call that passes the
\* override, domain and high-confidence keyword stages returns method llm,
\* and when the LLM call fails the result is real_estate at 0.3 with method
\* llm, whatever category the keywords found, with nothing that tells the
\* failure.
C29_LLMFallbackMasks ==
  /\ (pc = "done" /\ use_llm_fallback) =>
       result.method \notin {"keywords_medium_confidence", "default_fallback"}
  /\ (Finished /\ use_llm_fallback /\ NothingCheaper) => LLMCalled
  /\ (pc = "done" /\ use_llm_fallback /\ NothingCheaper) => result.method = "llm"
  /\ LLMFailed =>
       /\ pc = "done"
       /\ result = Result(K_real_estate, R(3, 10), "llm")
       /\ DOMAIN result = {"content_type", "confidence", "method", "suggested_type"}

\* the keywords found restaurant at 0.65, the chat completion raised, and
\* the result is real_estate at 0.3 with method llm
C29_Witness ==
  /\ pc = "done"
  /\ use_llm_fallback
  /\ html = D_restaurant_more
  /\ keyword_type = K_restaurant
  /\ keyword_confidence = R(13, 20)
  /\ llm = [kind |-> "api_error"]
  /\ result = Result(K_real_estate, R(3, 10), "llm")

\* ------------------------------------------------------------------------
\* The role of content_type in the heuristic levels
\* ------------------------------------------------------------------------

\* _analyze_url_patterns(url, content_type) for every content type
url_by_type == [u \in PageUrls, c \in PageContentTypes |-> analyze_url_patterns(u, c)]

OtherTypes == PageContentTypes \ {K_tour}

\* C30: the heuristic levels depend on content_type only through whether it
\* is 'tour': the URL analyzer returns the same result for every
\* content_type, and for two content types other than 'tour' the HTML
\* analyzer and the Level-2 vote return the same page type and confidence
\* and the same decision to escalate.
C30_TourOnly ==
  /\ (Len(stages) >= 1 /\ ~by_url[url].raised) =>
       \A c \in PageContentTypes : url_by_type[url, c] = url_result
  /\ (HtmlAnalysed /\ content_type # K_tour) =>
       \A c \in OtherTypes :
         LET h  == by_html[html, c]
             v  == Level2Vote(by_url[url], h)
             v0 == Level2Vote(url_result, html_result)
         IN  /\ h.page_type = html_result.page_type
             /\ h.confidence = html_result.confidence
             /\ v.final_type = v0.final_type
             /\ v.final_confidence = v0.final_confidence
             /\ NeedsLevel3(by_url[url], h) <=> NeedsLevel3(url_result, html_result)
             /\ pc = "page_done" => (OpenAICalled <=> NeedsLevel3(by_url[url], h))

\* a page of guide language analysed as a hotel page: the same verdict as
\* for a restaurant page, and another one than for a tour page
C30_Witness ==
  /\ pc = "page_done"
  /\ content_type = O_hotel
  /\ html = P_guide
  /\ url = V_plain
  /\ html_result = by_html[html, K_restaurant]
  /\ html_result.confidence # by_html[html, K_tour].confidence
  /\ url_result = url_by_type[url, K_tour]

====
